---- MODULE Spec2Model ----
(***************************************************************************)
(* A model of dndice: the operator table, the tokenizer state machine, the *)
(* shunting-yard tree builder, the tree walks and transforms and the       *)
(* evaluator (src/dndice/lib/*.py, src/dndice/core.py).                    *)
(*                                                                         *)
(* Values are tagged records: [k |-> "int", n], [k |-> "float", num, den]  *)
(* (and the signed zero NegZero),                                          *)
(* [k |-> "bool", b], [k |-> "tuple", sides], [k |-> "roll", ...],         *)
(* [k |-> "op", code], [k |-> "str", s] and None.                          *)
(***************************************************************************)
EXTENDS Integers, Sequences, FiniteSets, TLC

VARIABLES
  source,     \* the argument handed to EvalTree(...) / tokens(...)
  pc,         \* position of the pipeline that is being run
  st,         \* tokenizer: class of the current State object
  pos,        \* tokenizer: State.i, the scan position
  toks,       \* tokenizer: the tokens yielded so far
  raised,     \* the exception that reached the caller ("" when none did)
  tree,       \* EvalTree.root of the tree built from source
  aux,        \* what the last operation did and returned
  applied,    \* rank of the highest transform that tree has been through
  heap,       \* the EvalTreeNode objects: heap[id] is the node with that id
  roots,      \* the EvalTree objects a, b and r: the id of each one's root
  rolled      \* a Roll object: its rolls, discards, die and sorting flag

vars == <<source, pc, st, pos, toks, raised, tree, aux, applied, heap, roots, rolled>>

None == [k |-> "None"]
NoErr == ""

----------------------------------------------------------------------------
(* Side (operators.py): a two-bit mask.                                    *)
RIGHT == 1
LEFT == 2
BOTH == 3
NEITHER == 0

\* `mask & Side.RIGHT` and `mask & Side.LEFT`
HasRight(mask) == mask % 2 = 1
HasLeft(mask) == (mask \div 2) % 2 = 1

Op(code, precedence, arity, associativity, cajole, viewAs) ==
  [code |-> code, precedence |-> precedence, arity |-> arity,
   associativity |-> associativity, cajole |-> cajole, viewAs |-> viewAs]

\* The OPERATORS table; viewAs "" stands for viewAs=None.
OPERATORS ==
  [c \in {"!", "d", "da", "dc", "dm", "h", "l", "f", "c", "r", "R", "r<", "R<",
          "rl", "Rl", "r>", "R>", "rh", "Rh", "t", "T", "^", "m", "p", "*", "/",
          "%", "-", "+", ">", "gt", ">=", "ge", "<", "lt", "<=", "le", "=", "|",
          "&"} |->
     CASE c = "!" -> Op(c, 8, LEFT, LEFT, LEFT, "")
       [] c \in {"d", "da", "dc", "dm"} -> Op(c, 7, BOTH, LEFT, LEFT, "")
       [] c \in {"h", "l", "f", "c", "r", "R", "r<", "R<", "rl", "Rl", "r>",
                 "R>", "rh", "Rh", "t", "T"} -> Op(c, 6, BOTH, LEFT, RIGHT, "")
       [] c = "^" -> Op(c, 5, BOTH, RIGHT, BOTH, "")
       [] c = "m" -> Op(c, 4, RIGHT, LEFT, RIGHT, "-")
       [] c = "p" -> Op(c, 4, RIGHT, LEFT, RIGHT, "+")
       [] c \in {"*", "/", "%"} -> Op(c, 3, BOTH, LEFT, BOTH, "")
       [] c \in {"-", "+"} -> Op(c, 2, BOTH, LEFT, BOTH, "")
       [] OTHER -> Op(c, 1, BOTH, LEFT, BOTH, "")]

Codes == DOMAIN OPERATORS

----------------------------------------------------------------------------
(* Tokens and values.                                                      *)
IntTok(n) == [k |-> "int", n |-> n]
OpTok(code) == [k |-> "op", code |-> code]
StrTok(s) == [k |-> "str", s |-> s]
TupleTok(sides) == [k |-> "tuple", sides |-> sides]

IsOperator(t) == t.k = "op"
IsStr(v) == v.k = "str"
\* isinstance(t, (int, tuple)); bool is a subclass of int
IsIntOrTuple(t) == t.k \in {"int", "bool", "tuple"}
\* Operator.__eq__ against a string: t == s
EqStr(t, s) == \/ t.k = "str" /\ t.s = s
               \/ t.k = "op" /\ t.code = s

Prec(t) == OPERATORS[t.code].precedence
Arity(t) == OPERATORS[t.code].arity
Assoc(t) == OPERATORS[t.code].associativity

\* Operator.__gt__: False against a str, precedence order against an Operator
OpGt(a, b) == IF b.k = "str" THEN FALSE ELSE Prec(a) > Prec(b)

----------------------------------------------------------------------------
(* Exceptions (exceptions.py): the classes, their bases and the number of  *)
(* positional arguments their constructor takes.                           *)
Bases ==
  [e \in {"RollError", "ParseError", "InputTypeError", "EvaluationError",
          "ArgumentValueError", "ArgumentTypeError", "TypeError", "ValueError",
          "IndexError", "AttributeError", "ZeroDivisionError", "RuntimeError",
          "Exception"} |->
     CASE e = "RollError" -> {"Exception"}
       [] e = "ParseError" -> {"RollError", "ValueError"}
       [] e = "InputTypeError" -> {"RollError", "TypeError"}
       [] e = "EvaluationError" -> {"RollError", "RuntimeError"}
       [] e = "ArgumentValueError" -> {"EvaluationError", "ValueError"}
       [] e = "ArgumentTypeError" -> {"EvaluationError", "TypeError"}
       [] e = "Exception" -> {}
       [] OTHER -> {"Exception"}]

RECURSIVE IsSubclass(_, _)
IsSubclass(e, base) ==
  \/ e = base
  \/ \E b \in Bases[e] : IsSubclass(b, base)

\* ParseError.__init__(self, msg, offset, expr) is the only constructor that
\* does not accept a lone message.
InitArgs(e) == IF e = "ParseError" THEN {3} ELSE {0, 1, 2, 3}

\* ex(*args): the exception that `raise ex(args)` ends up raising
Construct(ex, nargs) == IF nargs \in InitArgs(ex) THEN ex ELSE "TypeError"

\* Not exceptions of the program: a computation that leaves the modelled
\* range of values, and a loop that the model stops following.
OutOfModel == "OutOfModel"
NonTermination == "NonTermination"
Pseudo == {OutOfModel, NonTermination}

\* `except target` taken as a match of the exact class only.
WrapExceptionsWith_ExactTarget(ex, target, e) ==
  IF e = target THEN Construct(ex, 1) ELSE e

\* wrap_exceptions_with(ex, message, target): `raise ex(message) from e`
WrapExceptionsWith(ex, target, e) ==
  IF e = NoErr \/ e \in Pseudo THEN e
  ELSE IF IsSubclass(e, target) THEN Construct(ex, 1)
  ELSE e

----------------------------------------------------------------------------
(* EvalTreeNode and the tree builder (evaltree.py).                        *)
EvalTreeNode(payload, left, right) ==
  [payload |-> payload, left |-> left, right |-> right, value |-> None]

is_leaf(node) == node.left = None /\ node.right = None

Last(s) == s[Len(s)]
Front(s) == SubSeq(s, 1, Len(s) - 1)

\* The stacks of __from_tokens together with the exception in flight.
Stacks(ops, values, err) == [ops |-> ops, values |-> values, err |-> err]

\* __one_operation: pop an operator, give it its operands, push the subtree.
one_operation_needL(needL, s, needR, ops1, current) ==
  LET v0 == s.values
  IN IF needR /\ v0 = <<>> THEN Stacks(ops1, v0, "IndexError")
     ELSE
       LET right == IF needR THEN Last(v0) ELSE None
           v1 == IF needR THEN Front(v0) ELSE v0
       IN IF needL /\ v1 = <<>> THEN Stacks(ops1, v1, "IndexError")
          ELSE
            LET left == IF needL THEN Last(v1) ELSE None
                v2 == IF needL THEN Front(v1) ELSE v1
            IN Stacks(ops1, Append(v2, EvalTreeNode(current, left, right)),
                      NoErr)

\* __one_operation that pops two subtrees for every operator.
one_operation_BothSides(s) ==
  IF s.err # NoErr THEN s
  ELSE IF s.ops = <<>> THEN Stacks(s.ops, s.values, "IndexError")
  ELSE IF ~IsOperator(Last(s.ops)) THEN Stacks(Front(s.ops), s.values, "AttributeError")
  ELSE one_operation_needL(TRUE, s, TRUE, Front(s.ops), Last(s.ops))

one_operation_needR(needR, current, s, ops1) ==
  one_operation_needL(HasLeft(Arity(current)), s, needR, ops1, current)
one_operation(s) ==
  IF s.err # NoErr THEN s
  ELSE IF s.ops = <<>> THEN Stacks(s.ops, s.values, "IndexError")
  ELSE
    LET current == Last(s.ops)
        ops1 == Front(s.ops)
    IN IF ~IsOperator(current) THEN Stacks(ops1, s.values, "AttributeError")
       ELSE
         one_operation_needR(HasRight(Arity(current)), current, s, ops1)

\* `while operators[-1] != '(': one_operation` of the ')' branch
RECURSIVE ReduceToParen(_)
ReduceToParen(s) ==
  IF s.err # NoErr THEN s
  ELSE IF s.ops = <<>> THEN Stacks(s.ops, s.values, "IndexError")
  ELSE IF EqStr(Last(s.ops), "(") THEN s
  ELSE ReduceToParen(one_operation(s))

\* The loop condition of the operator branch.
\* ShouldReduce without the associativity test.
ShouldReduce_AnyTie(top, t) ==
  /\ IsOperator(top)
  /\ Prec(top) >= Prec(t)

ShouldReduce(top, t) ==
  /\ IsOperator(top)
  /\ \/ OpGt(top, t)
     \/ Prec(top) = Prec(t) /\ Assoc(top) = LEFT

RECURSIVE ReduceWhileTighter(_, _)
ReduceWhileTighter(s, t) ==
  IF s.err # NoErr THEN s
  ELSE IF s.ops # <<>> /\ ShouldReduce(Last(s.ops), t)
    THEN ReduceWhileTighter(one_operation(s), t)
  ELSE s

\* `while len(operators): one_operation`
RECURSIVE Drain(_)
Drain(s) ==
  IF s.err # NoErr \/ s.ops = <<>> THEN s
  ELSE Drain(one_operation(s))

\* One iteration of `for t in tokens`.
ConsumeToken_r(r, t) ==
  IF r.err # NoErr THEN r ELSE Stacks(Append(r.ops, t), r.values, NoErr)

ConsumeToken_r2(r) ==
  IF r.err # NoErr THEN r ELSE Stacks(Front(r.ops), r.values, NoErr)
ConsumeToken(s, t) ==
  IF s.err # NoErr THEN s
  ELSE IF IsIntOrTuple(t)
    THEN Stacks(s.ops, Append(s.values, EvalTreeNode(t, None, None)), NoErr)
  ELSE IF EqStr(t, "(") THEN Stacks(Append(s.ops, t), s.values, NoErr)
  ELSE IF EqStr(t, ")")
    THEN ConsumeToken_r2(ReduceToParen(s))
  ELSE IF ~IsOperator(t)
    \* a float, a Roll or a stray string has no precedence to compare
    THEN IF s.ops # <<>> /\ IsOperator(Last(s.ops))
           THEN Stacks(s.ops, s.values,
                       IF t.k = "str" THEN "AttributeError" ELSE "ArgumentTypeError")
           ELSE Stacks(Append(s.ops, t), s.values, NoErr)
  ELSE ConsumeToken_r(ReduceWhileTighter(s, t), t)

RECURSIVE ConsumeAll(_, _, _)
ConsumeAll(s, tokens, i) ==
  IF i > Len(tokens) THEN s
  ELSE ConsumeAll(ConsumeToken(s, tokens[i]), tokens, i + 1)

\* The body of __from_tokens, before the decorator: the root and the
\* exception that left the body.
from_tokens_body_s(s) ==
  IF s.err # NoErr THEN [root |-> None, err |-> s.err]
  ELSE [root |-> IF s.values # <<>> THEN Last(s.values)
                 ELSE EvalTreeNode(IntTok(0), None, None),
        err |-> NoErr]
from_tokens_body(tokens) ==
  from_tokens_body_s(Drain(ConsumeAll(Stacks(<<>>, <<>>, NoErr), tokens, 1)))

\* __from_tokens as decorated with
\* @wrap_exceptions_with(ParseError, 'Failed to construct ...')
from_tokens_b(b) ==
  [root |-> b.root, err |-> WrapExceptionsWith("ParseError", "Exception", b.err),
   cause |-> b.err]
from_tokens(tokens) ==
  from_tokens_b(from_tokens_body(tokens))

----------------------------------------------------------------------------
(* Tree walks.                                                             *)

\* __pre_order_recursive with abort = lambda node: False, from a node
RECURSIVE pre_order_from(_)
pre_order_from(current) ==
  <<current>>
  \o (IF current.left # None THEN pre_order_from(current.left) ELSE <<>>)
  \o (IF current.right # None THEN pre_order_from(current.right) ELSE <<>>)

\* EvalTree.pre_order(): the nodes the generator yields and the exception
\* that ends it.  On an empty tree it yields the root None and then fails
\* on `current.left`.
pre_order(root) ==
  IF root = None THEN [walk |-> <<None>>, err |-> "AttributeError"]
  ELSE [walk |-> pre_order_from(root), err |-> NoErr]

Payloads(nodes) == [i \in 1..Len(nodes) |-> nodes[i].payload]

----------------------------------------------------------------------------
(* Mode transforms: a pre-order walk that rewrites dice payloads in place. *)
\* `if node.payload == 'd': node.payload = OPERATORS['da']`: Operator.__eq__
\* compares the code, and a str payload is compared as a str
RewritePayload(node, from, to) ==
  IF \/ IsOperator(node.payload) /\ node.payload.code \in from
     \/ IsStr(node.payload) /\ node.payload.s \in from
    THEN [node EXCEPT !.payload = OpTok(to)]
  ELSE node

RECURSIVE Rewrite(_, _, _)
Rewrite(node, from, to) ==
  IF node = None THEN None
  ELSE [RewritePayload(node, from, to) EXCEPT
          !.left = Rewrite(node.left, from, to),
          !.right = Rewrite(node.right, from, to)]

\* On an empty tree the walk yields None and `node.payload` fails.
Transform(root, from, to) ==
  IF root = None THEN [root |-> None, err |-> "AttributeError"]
  ELSE [root |-> Rewrite(root, from, to), err |-> NoErr]

\* critify that leaves averaged dice alone.
critify_PlainOnly(root) == Transform(root, {"d"}, "dc")

critify(root) == Transform(root, {"d", "da"}, "dc")
averageify(root) == Transform(root, {"d"}, "da")
maxify(root) == Transform(root, {"d", "da", "dc"}, "dm")

----------------------------------------------------------------------------
(* Numbers.  A Python int is [k |-> "int"], a bool [k |-> "bool"], a float *)
(* a dyadic rational num/den in lowest terms (den a power of two), which a *)
(* binary float holds exactly.  A result outside IntCap, or a float that   *)
(* is not dyadic, is reported as the pseudo-exception OutOfModel.          *)
IntCap == 30000

BoolVal(b) == [k |-> "bool", b |-> b]
Err(e) == [k |-> "raise", e |-> e]
IsErr(v) == v.k = "raise"
IsNumber(v) == v.k \in {"int", "bool", "float"}
\* isinstance(v, int)
IsInt(v) == v.k \in {"int", "bool"}

Abs(n) == IF n < 0 THEN -n ELSE n
Num(v) == CASE v.k = "int" -> v.n
            [] v.k = "bool" -> (IF v.b THEN 1 ELSE 0)
            [] v.k = "float" -> v.num
Den(v) == IF v.k = "float" THEN v.den ELSE 1

RECURSIVE IsPow2(_)
IsPow2(d) == d = 1 \/ (d > 1 /\ d % 2 = 0 /\ IsPow2(d \div 2))

RECURSIVE GCD(_, _)
GCD(a, b) == IF b = 0 THEN a ELSE GCD(b, a % b)

\* floor(n / d) for d > 0
FloorDiv(n, d) == IF n >= 0 THEN n \div d ELSE -((-n + d - 1) \div d)

\* The int n, or OutOfModel.
MkInt(n) == IF Abs(n) > IntCap THEN Err(OutOfModel) ELSE IntTok(n)

\* The float n/d (d # 0), or OutOfModel.
MkFloat_g(g, sn, sd) ==
  LET rn == sn \div g
      rd == sd \div g
  IN IF Abs(rn) > IntCap \/ rd > IntCap \/ ~IsPow2(rd) THEN Err(OutOfModel)
     ELSE [k |-> "float", num |-> rn, den |-> rd]
MkFloat(n, d) ==
  LET sn == IF d < 0 THEN -n ELSE n
      sd == Abs(d)
  IN MkFloat_g(GCD(Abs(sn), sd), sn, sd)

\* The two zeros of a float: 0.0 is the float 0/1, -0.0 carries its sign.
\* They are equal as numbers and differ in str().
PosZero == [k |-> "float", num |-> 0, den |-> 1]
NegZero == [k |-> "float", num |-> 0, den |-> 1, sign |-> "-"]
IsNegZero(v) == v = NegZero
\* the sign bit of a number
Negative(v) == Num(v) < 0 \/ IsNegZero(v)
\* a float zero takes the sign the operation gives it
Signed(v, neg) == IF neg /\ v = PosZero THEN NegZero ELSE v

\* x < y, x = y on numbers (int and float compare by value)
NumLt(x, y) == Num(x) * Den(y) < Num(y) * Den(x)
NumEq(x, y) == Num(x) * Den(y) = Num(y) * Den(x)
NumLe(x, y) == NumLt(x, y) \/ NumEq(x, y)
Truthy(x) == Num(x) # 0

\* The result type of int (+, -, *, %) int is int, anything else float.
Mk(x, y, n, d) == IF IsInt(x) /\ IsInt(y) THEN MkInt(n \div d) ELSE MkFloat(n, d)

\* a zero sum is -0.0 only for -0.0 + -0.0, a zero difference only for
\* -0.0 - 0; a zero product or quotient has the sign of its operands
Add(x, y) == Signed(Mk(x, y, Num(x) * Den(y) + Num(y) * Den(x), Den(x) * Den(y)),
                    IsNegZero(x) /\ IsNegZero(y))
Sub(x, y) == Signed(Mk(x, y, Num(x) * Den(y) - Num(y) * Den(x), Den(x) * Den(y)),
                    IsNegZero(x) /\ Num(y) = 0 /\ ~IsNegZero(y))
Mul(x, y) == Signed(Mk(x, y, Num(x) * Num(y), Den(x) * Den(y)),
                    Negative(x) # Negative(y))
\* true division: always a float
Div(x, y) == IF Num(y) = 0 THEN Err("ZeroDivisionError")
             ELSE Signed(MkFloat(Num(x) * Den(y), Den(x) * Num(y)),
                         Negative(x) # Negative(y))
\* x % y = x - y * floor(x / y): the sign follows the divisor
Mod_b(b, a, x, y) ==
  LET q == IF b > 0 THEN FloorDiv(a, b) ELSE FloorDiv(-a, -b)
  IN Mk(x, y, a - q * b, Den(x) * Den(y))

Mod_a(a, y, x) ==
  Mod_b(Num(y) * Den(x), a, x, y)
\* a zero remainder has the sign of the divisor
Mod(x, y) ==
  IF Num(y) = 0 THEN Err("ZeroDivisionError")
  ELSE Signed(Mod_a(Num(x) * Den(y), y, x), Negative(y))
Neg(x) == IF IsInt(x) THEN MkInt(-Num(x))
          ELSE Signed(MkFloat(-Num(x), Den(x)), ~Negative(x))

RECURSIVE IntPow(_, _)
IntPow_r(r, b) ==
  IF Abs(r) > IntCap THEN r ELSE r * b
IntPow(b, e) ==
  IF e = 0 THEN 1
  ELSE IntPow_r(IntPow(b, e - 1), b)

\* The exponent e reduced to one that gives the same power of a base in
\* {-1, 0, 1}, so that the recursion of IntPow stays shallow.
SmallExp(b, e) == IF Abs(b) <= 1 /\ e > 2 THEN 2 - (e % 2) ELSE e
MaxExp == 15

\* x ** y for an integral y; a fractional exponent is outside the model.
Pow_d(d, n, y, x) ==
  IF Abs(n) > IntCap \/ d > IntCap THEN Err(OutOfModel)
  ELSE IF Num(y) >= 0
    THEN IF IsInt(x) /\ IsInt(y) THEN MkInt(n) ELSE MkFloat(n, d)
  ELSE IF Num(x) = 0 THEN Err("ZeroDivisionError")
  ELSE MkFloat(d, n)

Pow_n(n, x, ed, y) ==
  Pow_d(IntPow(Den(x), ed), n, y, x)

Pow_ed(ed, y, en, x) ==
  IF Den(y) # 1 \/ en > MaxExp \/ ed > MaxExp THEN Err(OutOfModel)
  ELSE Pow_n(IntPow(Num(x), en), x, ed, y)

Pow_en(en, x, e, y) ==
  Pow_ed(SmallExp(Den(x), e), y, en, x)

Pow_e(e, x, y) ==
  Pow_en(SmallExp(Num(x), e), x, e, y)
\* -0.0 to an odd power is -0.0
Pow(x, y) ==
  Signed(Pow_e(Abs(Num(y)), x, y),
         IsNegZero(x) /\ Num(y) > 0 /\ Den(y) = 1 /\ Num(y) % 2 = 1)

\* sum(values): 0 + v1 + v2 + ...
RECURSIVE SumFrom(_, _, _)
SumFrom(acc, values, i) ==
  IF IsErr(acc) \/ i > Len(values) THEN acc
  ELSE SumFrom(Add(acc, values[i]), values, i + 1)
Sum(values) == SumFrom(IntTok(0), values, 1)

----------------------------------------------------------------------------
(* Roll (operators.py): the active rolls, kept sorted, the die and the    *)
(* discards.                                                               *)

\* list.sort() on a list of numbers: a stable insertion sort
RECURSIVE Insert(_, _)
Insert(sorted, v) ==
  IF sorted = <<>> THEN <<v>>
  ELSE IF NumLt(v, Last(sorted)) THEN Append(Insert(Front(sorted), v), Last(sorted))
  ELSE Append(sorted, v)

RECURSIVE SortFrom(_, _, _)
SortFrom(acc, values, i) ==
  IF i > Len(values) THEN acc ELSE SortFrom(Insert(acc, values[i]), values, i + 1)
Sort(values) == SortFrom(<<>>, values, 1)

\* Roll(rolls, die): the rolls setter sorts
Roll(rolls, die) ==
  [k |-> "roll", rolls |-> Sort(rolls), die |-> die, discards |-> <<>>]

IsRoll(v) == v.k = "roll"
IsTuple(v) == v.k = "tuple"
\* the values a Roll or a tuple iterates over
Items(v) == IF IsRoll(v) THEN v.rolls ELSE v.sides

RECURSIVE MaxFrom(_, _, _)
MaxFrom(best, values, i) ==
  IF i > Len(values) THEN best
  ELSE MaxFrom(IF NumLt(best, values[i]) THEN values[i] ELSE best, values, i + 1)
RECURSIVE MinFrom(_, _, _)
MinFrom(best, values, i) ==
  IF i > Len(values) THEN best
  ELSE MinFrom(IF NumLt(values[i], best) THEN values[i] ELSE best, values, i + 1)
\* max(values) / min(values) of a non-empty sequence
Max(values) == MaxFrom(values[1], values, 2)
Min(values) == MinFrom(values[1], values, 2)

Repeat(v, n) == [i \in 1..(IF n > 0 THEN n ELSE 0) |-> v]

----------------------------------------------------------------------------
(* The random source.  rng.seq lists the raw numbers the generator hands   *)
(* out, rng.rest is handed out once the list is used up, rng.j counts the  *)
(* draws and rng.log records the outcome of every draw.  A raw number      *)
(* below zero stands for a random.randint that is patched to return -raw   *)
(* whatever the range is, as the fixture mock_randint of tests/conftest.py *)
(* does.                                                                   *)
Rng(seq, rest) == [seq |-> seq, rest |-> rest, j |-> 1, log |-> <<>>]
Raw(rng) == IF rng.j <= Len(rng.seq) THEN rng.seq[rng.j] ELSE rng.rest
Drawn(rng, outcome) == [rng EXCEPT !.j = @ + 1, !.log = Append(@, outcome)]
Out(v, rng) == [v |-> v, rng |-> rng]

\* random.randint(1, hi): a value of 1..hi, ValueError on an empty range
randint_r(r, rng) ==
  Out(IntTok(r), Drawn(rng, IntTok(r)))
randint(hi, rng) ==
  IF Raw(rng) < 0 THEN randint_r(0 - Raw(rng), rng)
  ELSE IF hi < 1 THEN Out(Err("ValueError"), rng)
  ELSE randint_r(1 + (Raw(rng) % hi), rng)

\* random.choice(seq): IndexError on an empty sequence.  The fixture does
\* not patch random.choice, whose outcome is then outside the model.
choice_r(r, rng) ==
  Out(r, Drawn(rng, r))
choice(seq, rng) ==
  IF seq = <<>> THEN Out(Err("IndexError"), rng)
  ELSE IF Raw(rng) < 0 THEN Out(Err(OutOfModel), rng)
  ELSE choice_r(seq[1 + (Raw(rng) % Len(seq))], rng)

single_die_total(total, rng) ==
  IF IsErr(total) THEN Out(total, rng)
  ELSE IF IsInt(total) THEN randint(Num(total), rng)
  ELSE Out(Err(OutOfModel), rng)
single_die(sides, rng) ==
  CASE IsInt(sides) -> randint(Num(sides), rng)
    [] IsTuple(sides) -> choice(sides.sides, rng)
    [] IsRoll(sides) ->
         single_die_total(Sum(sides.rolls), rng)
    [] OTHER -> Out(Err("ArgumentTypeError"), rng)

\* [single_die(sides) for _ in range(count)]
RECURSIVE DrawMany(_, _, _, _)
DrawMany_d(d, acc, count, sides) ==
  IF IsErr(d.v) THEN d
  ELSE DrawMany(Append(acc, d.v), count - 1, sides, d.rng)
DrawMany(acc, count, sides, rng) ==
  IF count <= 0 THEN Out([k |-> "list", items |-> acc], rng)
  ELSE DrawMany_d(single_die(sides, rng), acc, count, sides)

roll_basic_d(d, sides) ==
  IF IsErr(d.v) THEN d ELSE Out(Roll(d.v.items, sides), d.rng)
roll_basic(number, sides, rng) ==
  IF ~IsInt(number) THEN Out(Err("TypeError"), rng)
  ELSE roll_basic_d(DrawMany(<<>>, Num(number), sides, rng), sides)

\* A critical roll that draws the plain number of dice.
roll_critical_NotDoubled(number, sides, rng) == roll_basic(number, sides, rng)

roll_critical_d(d, sides) ==
  IF IsErr(d.v) THEN d ELSE Out(Roll(d.v.items, sides), d.rng)
roll_critical(number, sides, rng) ==
  IF ~IsInt(number) THEN Out(Err("TypeError"), rng)
  ELSE roll_critical_d(DrawMany(<<>>, 2 * Num(number), sides, rng), sides)

\* [top] * number
Times(top, number, sides) ==
  IF IsErr(top) THEN top
  ELSE IF ~IsInt(number) THEN Err("TypeError")
  ELSE Roll(Repeat(top, Num(number)), sides)

roll_max(number, sides) ==
  IF IsTuple(sides) \/ IsRoll(sides)
    THEN Times(IF Items(sides) = <<>> THEN Err("ValueError") ELSE Max(Items(sides)),
               number, sides)
  ELSE IF IsNumber(sides) THEN Times(sides, number, sides)
  ELSE Err("ArgumentTypeError")

roll_average_up(up) ==
  IF IsErr(up) THEN up ELSE Div(up, IntTok(2))

roll_average_total(total, sides) ==
  IF IsErr(total) THEN total
  ELSE Div(total, IntTok(Len(Items(sides))))
roll_average(number, sides) ==
  IF IsTuple(sides) \/ IsRoll(sides)
    THEN Times(roll_average_total(Sum(Items(sides)), sides),
               number, sides)
  ELSE IF IsInt(sides)
    THEN Times(roll_average_up(Add(sides, IntTok(1))),
               number, sides)
  ELSE Err("ArgumentTypeError")

----------------------------------------------------------------------------
(* The roll-modifying operators.                                           *)

\* Roll.discard(slice): the slice goes to discards and leaves rolls
DiscardSlice(roll, from, to) ==
  [roll EXCEPT !.discards = @ \o SubSeq(roll.rolls, from, to),
               !.rolls = SubSeq(roll.rolls, 1, from - 1)
                         \o SubSeq(roll.rolls, to + 1, Len(roll.rolls))]

\* Roll.replace that forgets the value it overwrites.
Replace_Forgetful(roll, i, new) == [roll EXCEPT !.rolls[i] = new]

\* Roll.replace(i, new) with sorting disabled (i counts from 1)
Replace(roll, i, new) ==
  [roll EXCEPT !.discards = Append(@, roll.rolls[i]), !.rolls[i] = new]

\* leaving the sorting_disabled block sorts the rolls
Resorted(roll) == [roll EXCEPT !.rolls = Sort(@)]

\* Roll.copy(): a new Roll built from the rolls (the constructor sorts them)
\* with the same die, then the discards copied over
Roll_copy(roll) == [Roll(roll.rolls, roll.die) EXCEPT !.discards = roll.discards]

\* check_simple_types for the signature (roll: Roll, number: int)
CheckRollInt(roll, number) == IsRoll(roll) /\ IsInt(number)

take_low_n(n, len, number, roll) ==
  IF len > Num(number)
    \* slice(-n, None)
    THEN DiscardSlice(roll, (IF n > len THEN 0 ELSE len - n) + 1, len)
  ELSE roll
take_low(roll, number) ==
  IF ~CheckRollInt(roll, number) THEN Err("ArgumentTypeError")
  ELSE LET len == Len(roll.rolls)
       IN take_low_n(len - Num(number), len, number, Roll_copy(roll))

\* take_high that discards from the top of the sorted rolls.
take_high_FromTop(roll, number) ==
  IF ~CheckRollInt(roll, number) THEN Err("ArgumentTypeError")
  ELSE take_low_n(Len(roll.rolls) - Num(number), Len(roll.rolls), number,
                  Roll_copy(roll))

take_high_n(n, len, number, roll) ==
  IF len > Num(number)
    \* slice(None, n)
    THEN DiscardSlice(roll, 1, IF n > len THEN len ELSE n)
  ELSE roll
take_high(roll, number) ==
  IF ~CheckRollInt(roll, number) THEN Err("ArgumentTypeError")
  ELSE LET len == Len(roll.rolls)
       IN take_high_n(len - Num(number), len, number, Roll_copy(roll))

Indicator(values, hit(_)) ==
  [i \in 1..Len(values) |-> IntTok(IF hit(values[i]) THEN 1 ELSE 0)]

threshold_lower(roll, threshold) ==
  IF ~CheckRollInt(roll, threshold) THEN Err("ArgumentTypeError")
  ELSE LET met(v) == NumLe(threshold, v)
       IN [Roll(Indicator(roll.rolls, met), roll.die) EXCEPT
             !.discards = roll.discards \o roll.rolls]

threshold_upper(roll, threshold) ==
  IF ~CheckRollInt(roll, threshold) THEN Err("ArgumentTypeError")
  ELSE LET met(v) == NumLe(v, threshold)
       IN [Roll(Indicator(roll.rolls, met), roll.die) EXCEPT
             !.discards = roll.discards \o roll.rolls]

\* the comparison lambdas of the reroll family
\* bool(v) as `or` / `and` take it: a number by its value, a tuple, a str
\* and a Roll (__len__) by their length, None false, any other object true
Truth(v) == CASE IsNumber(v) -> Truthy(v)
              [] IsTuple(v) -> v.sides # <<>>
              [] IsRoll(v) -> v.rolls # <<>>
              [] IsStr(v) -> v.s # ""
              [] v = None -> FALSE
              [] OTHER -> TRUE

\* the first index at which two tuples differ, 0 when one is a prefix
FirstDiff(a, b) ==
  LET m == IF Len(a) < Len(b) THEN Len(a) ELSE Len(b)
      D == {i \in 1..m : ~NumEq(a[i], b[i])}
  IN IF D = {} THEN 0 ELSE CHOOSE i \in D : \A j \in D : i <= j

\* tuple a < b (strict) or a <= b: lexicographic, then by length
TupleLess_i(i, a, b, strict) ==
  IF i = 0 THEN (IF strict THEN Len(a) < Len(b) ELSE Len(a) <= Len(b))
  ELSE NumLt(a[i], b[i])
TupleLess(a, b, strict) == TupleLess_i(FirstDiff(a, b), a, b, strict)

\* x == y.  Numbers compare by value, tuples item by item, Operator.__eq__
\* compares codes (also against a str); a Roll has no __eq__ and is equal
\* only to itself, which two equal records cannot tell.
PyEq(x, y) ==
  CASE IsNumber(x) /\ IsNumber(y) -> BoolVal(NumEq(x, y))
    [] IsTuple(x) /\ IsTuple(y) ->
         BoolVal(Len(x.sides) = Len(y.sides) /\ FirstDiff(x.sides, y.sides) = 0)
    [] IsStr(x) /\ IsStr(y) -> BoolVal(x.s = y.s)
    [] IsOperator(x) /\ IsOperator(y) -> BoolVal(x.code = y.code)
    [] IsOperator(x) /\ IsStr(y) -> BoolVal(x.code = y.s)
    [] IsStr(x) /\ IsOperator(y) -> BoolVal(y.code = x.s)
    [] IsRoll(x) /\ IsRoll(y) -> (IF x = y THEN Err(OutOfModel) ELSE BoolVal(FALSE))
    [] x = None /\ y = None -> BoolVal(TRUE)
    [] OTHER -> BoolVal(FALSE)

\* Operator.__lt__ / __le__ / __gt__ / __ge__ (self, other)
Operator_compare(c, self, other) ==
  IF IsStr(other) THEN BoolVal(c \in {"lt", "le"})
  ELSE IF IsOperator(other)
    THEN BoolVal(CASE c = "lt" -> Prec(self) < Prec(other)
                   [] c = "le" -> Prec(self) <= Prec(other)
                   [] c = "gt" -> Prec(self) > Prec(other)
                   [] c = "ge" -> Prec(self) >= Prec(other))
  ELSE Err("ArgumentTypeError")

Reflected(c) == CASE c = "lt" -> "gt" [] c = "gt" -> "lt"
                  [] c = "le" -> "ge" [] c = "ge" -> "le"

\* x < y, x <= y, x > y, x >= y.  The order of two different strings is
\* outside the model.
PyCompare(c, x, y) ==
  CASE IsNumber(x) /\ IsNumber(y) ->
         BoolVal(CASE c = "lt" -> NumLt(x, y) [] c = "le" -> NumLe(x, y)
                   [] c = "gt" -> NumLt(y, x) [] c = "ge" -> NumLe(y, x))
    [] IsTuple(x) /\ IsTuple(y) ->
         BoolVal(CASE c = "lt" -> TupleLess(x.sides, y.sides, TRUE)
                   [] c = "le" -> TupleLess(x.sides, y.sides, FALSE)
                   [] c = "gt" -> TupleLess(y.sides, x.sides, TRUE)
                   [] c = "ge" -> TupleLess(y.sides, x.sides, FALSE))
    [] IsStr(x) /\ IsStr(y) ->
         (IF x.s = y.s THEN BoolVal(c \in {"le", "ge"}) ELSE Err(OutOfModel))
    [] IsOperator(x) -> Operator_compare(c, x, y)
    [] IsOperator(y) -> Operator_compare(Reflected(c), y, x)
    [] OTHER -> Err("TypeError")

Comp(c, x, y) == CASE c = "eq" -> NumEq(x, y)
                   [] c = "gt" -> NumLt(y, x)
                   [] c = "lt" -> NumLt(x, y)

\* How often one value is rerolled before the model gives up on the loop of
\* reroll_unconditional and reports the pseudo-exception NonTermination.
RerollFuel == 3

\* `if comp(...)` (once) or `while comp(...)` at position i
RECURSIVE RerollAt(_, _, _, _, _, _, _)
RerollAt_d(d, once, roll, i, target, c, fuel) ==
  IF IsErr(d.v) THEN d
  ELSE IF once THEN Out(Replace(roll, i, d.v), d.rng)
  ELSE RerollAt(Replace(roll, i, d.v), i, target, c, once, d.rng, fuel - 1)
RerollAt(roll, i, target, c, once, rng, fuel) ==
  IF ~Comp(c, roll.rolls[i], target) THEN Out(roll, rng)
  ELSE IF fuel = 0 THEN Out(Err(NonTermination), rng)
  ELSE RerollAt_d(single_die(roll.die, rng), once, roll, i, target, c, fuel)

RECURSIVE RerollFrom(_, _, _, _, _, _)
RerollFrom_r(r, i, target, c, once) ==
  IF IsErr(r.v) THEN r
  ELSE RerollFrom(r.v, i + 1, target, c, once, r.rng)
RerollFrom(roll, i, target, c, once, rng) ==
  IF i > Len(roll.rolls) THEN Out(Resorted(roll), rng)
  ELSE RerollFrom_r(RerollAt(roll, i, target, c, once, rng, RerollFuel), i, target, c, once)

\* original.copy() needs a Roll; comparing needs a number
reroll_once(original, target, c, rng) ==
  IF ~IsRoll(original) THEN Out(Err("AttributeError"), rng)
  ELSE RerollFrom(Roll_copy(original), 1, target, c, TRUE, rng)

reroll_unconditional(original, target, c, rng) ==
  IF ~IsRoll(original) THEN Out(Err("AttributeError"), rng)
  ELSE RerollFrom(Roll_copy(original), 1, target, c, FALSE, rng)

\* min(die) / max(die): the ValueError of an empty tuple, Roll or str, and
\* the fallback of the TypeError branch for a die that cannot be iterated.
\* A str of one character is its own minimum and maximum.
DieMin(die) ==
  CASE IsTuple(die) \/ IsRoll(die) ->
         IF Items(die) = <<>> THEN Err("ValueError") ELSE Min(Items(die))
    [] IsStr(die) ->
         IF die.s = "" THEN Err("ValueError")
         ELSE IF Len(die.s) = 1 THEN die ELSE Err(OutOfModel)
    [] OTHER -> IntTok(1)
DieMax(die) ==
  CASE IsTuple(die) \/ IsRoll(die) ->
         IF Items(die) = <<>> THEN Err("ValueError") ELSE Max(Items(die))
    [] IsStr(die) ->
         IF die.s = "" THEN Err("ValueError")
         ELSE IF Len(die.s) = 1 THEN die ELSE Err(OutOfModel)
    [] OTHER -> die

\* reroll_unconditional_higher without its guard.
reroll_unconditional_higher_Unguarded(original, target, rng) ==
  reroll_unconditional(original, target, "gt", rng)

\* `if target < min_: raise ArgumentValueError(...)` and the call that
\* follows; beyond is the outcome of the comparison
reroll_unconditional_checked(beyond, original, target, c, rng) ==
  IF IsErr(beyond) THEN Out(beyond, rng)
  ELSE IF beyond.b THEN Out(Err("ArgumentValueError"), rng)
  \* a target that is no number and passes the guard is outside the model
  ELSE IF ~IsNumber(target) THEN Out(Err(OutOfModel), rng)
  ELSE reroll_unconditional(original, target, c, rng)

\* the comparison of the target with min_ / max_
reroll_unconditional_bound(bound, cmp, original, target, c, rng) ==
  IF IsErr(bound) THEN Out(bound, rng)
  ELSE reroll_unconditional_checked(PyCompare(cmp, target, bound), original, target, c, rng)

reroll_unconditional_higher(original, target, rng) ==
  IF ~IsRoll(original) THEN Out(Err("AttributeError"), rng)
  ELSE reroll_unconditional_bound(DieMin(original.die), "lt", original, target, "gt", rng)

reroll_unconditional_lower(original, target, rng) ==
  IF ~IsRoll(original) THEN Out(Err("AttributeError"), rng)
  ELSE reroll_unconditional_bound(DieMax(original.die), "gt", original, target, "lt", rng)

\* floor_val / ceil_val: replace the values beyond the bound, then sort
RECURSIVE ClampFrom(_, _, _, _)
ClampFrom(roll, i, bound, c) ==
  IF i > Len(roll.rolls) THEN Resorted(roll)
  ELSE ClampFrom(IF Comp(c, roll.rolls[i], bound) THEN Replace(roll, i, bound) ELSE roll,
                 i + 1, bound, c)

floor_val(original, bottom) ==
  IF ~IsRoll(original) THEN Err("AttributeError")
  ELSE ClampFrom(Roll_copy(original), 1, bottom, "lt")

ceil_val(original, top) ==
  IF ~IsRoll(original) THEN Err("AttributeError")
  ELSE ClampFrom(Roll_copy(original), 1, top, "gt")

RECURSIVE FactFrom(_, _, _)
FactFrom(rv, i, number) ==
  IF i >= number \/ rv > IntCap THEN rv ELSE FactFrom(rv * (i + 1), i + 1, number)

\* check_simple_types for (number: int), then the guard and the product
factorial(number) ==
  IF ~IsInt(number) THEN Err("ArgumentTypeError")
  ELSE IF Num(number) < 0 THEN Err("ArgumentValueError")
  ELSE MkInt(FactFrom(1, 0, Num(number)))

----------------------------------------------------------------------------
(* Operator.__call__ and the evaluator.                                    *)

\* `if isinstance(operand, (Roll, tuple)): operand = sum(operand)`
Cajole(applies, v) ==
  IF applies /\ (IsRoll(v) \/ IsTuple(v)) THEN Sum(Items(v)) ELSE v

Params(code) == IF code \in {"!", "m", "p"} THEN 1 ELSE 2

\* sequence * n
RECURSIVE StrTimes(_, _)
StrTimes(str, n) ==
  IF n <= 0 THEN ""
  ELSE StrTimes(str, n \div 2) \o StrTimes(str, n \div 2)
       \o (IF n % 2 = 1 THEN str ELSE "")
SeqTimes(v, n) ==
  IF n > 0 /\ Len((IF IsStr(v) THEN v.s ELSE v.sides)) * n > IntCap THEN Err(OutOfModel)
  ELSE IF IsStr(v) THEN StrTok(StrTimes(v.s, n))
  ELSE TupleTok([i \in 1..(IF n > 0 THEN Len(v.sides) * n ELSE 0) |->
                   v.sides[((i - 1) % Len(v.sides)) + 1]])

\* the arithmetic lambdas on operands that are not both numbers: tuples and
\* strings concatenate and repeat, `str % value` is outside the model
Sequences2(code, x, y) ==
  CASE code = "+" /\ IsTuple(x) /\ IsTuple(y) -> TupleTok(x.sides \o y.sides)
    [] code = "+" /\ IsStr(x) /\ IsStr(y) -> StrTok(x.s \o y.s)
    [] code = "*" /\ (IsTuple(x) \/ IsStr(x)) /\ IsInt(y) -> SeqTimes(x, Num(y))
    [] code = "*" /\ IsInt(x) /\ (IsTuple(y) \/ IsStr(y)) -> SeqTimes(y, Num(x))
    [] code = "%" /\ IsStr(x) -> Err(OutOfModel)
    [] OTHER -> Err("TypeError")

\* the arithmetic, comparison and boolean lambdas of the table
Lambda2(code, x, y) ==
  CASE code = "|" -> (IF Truth(x) THEN x ELSE y)
    [] code = "&" -> (IF Truth(x) THEN y ELSE x)
    [] code = "=" -> PyEq(x, y)
    [] code \in {">", "gt"} -> PyCompare("gt", x, y)
    [] code \in {">=", "ge"} -> PyCompare("ge", x, y)
    [] code \in {"<", "lt"} -> PyCompare("lt", x, y)
    [] code \in {"<=", "le"} -> PyCompare("le", x, y)
    [] ~IsNumber(x) \/ ~IsNumber(y) -> Sequences2(code, x, y)
    [] code = "^" -> Pow(x, y)
    [] code = "*" -> Mul(x, y)
    [] code = "/" -> Div(x, y)
    [] code = "%" -> Mod(x, y)
    [] code = "-" -> Sub(x, y)
    [] code = "+" -> Add(x, y)

\* the annotations check_simple_types reads off the decorated function
Annotations(code) ==
  CASE code = "!" -> <<"int">>
    [] code \in {"h", "l", "t", "T"} -> <<"Roll", "int">>
    [] OTHER -> <<>>
Decorated(code) == Annotations(code) # <<>>

IsInstance(v, typ) == IF typ = "int" THEN IsInt(v) ELSE IsRoll(v)

\* The wrapper of check_simple_types over args, in order: annotations[i] of
\* an argument beyond the signature is an IndexError, an argument of another
\* type an ArgumentTypeError; then f(*args) needs the right number of them.
check_simple_types_bad(bad, annotations, args) ==
  IF bad # {}
    THEN (IF (CHOOSE i \in bad : \A j \in bad : i <= j) > Len(annotations)
            THEN "IndexError" ELSE "ArgumentTypeError")
  ELSE IF Len(args) # Len(annotations) THEN "TypeError"
  ELSE NoErr
check_simple_types(annotations, args) ==
  check_simple_types_bad(
    {i \in 1..Len(args) :
       i > Len(annotations) \/ ~IsInstance(args[i], annotations[i])},
    annotations, args)

\* what calling the function with these arguments raises before its body runs
Signature(code, args) ==
  IF Decorated(code) THEN check_simple_types(Annotations(code), args)
  ELSE IF Len(args) # Params(code) THEN "TypeError"
  ELSE NoErr

\* self.function(*args) for the operator with this code
Function(code, args, rng) ==
  IF Signature(code, args) # NoErr THEN Out(Err(Signature(code, args)), rng)
  ELSE LET x == args[1]
           y == args[Len(args)]
       IN CASE code = "!" -> Out(factorial(x), rng)
            [] code = "m" -> Out(IF IsNumber(x) THEN Neg(x) ELSE Err("TypeError"), rng)
            [] code = "p" -> Out(x, rng)
            [] code = "d" -> roll_basic(x, y, rng)
            [] code = "dc" -> roll_critical(x, y, rng)
            [] code = "da" -> Out(roll_average(x, y), rng)
            [] code = "dm" -> Out(roll_max(x, y), rng)
            [] code = "h" -> Out(take_high(x, y), rng)
            [] code = "l" -> Out(take_low(x, y), rng)
            [] code = "f" -> Out(floor_val(x, y), rng)
            [] code = "c" -> Out(ceil_val(x, y), rng)
            [] code = "t" -> Out(threshold_lower(x, y), rng)
            [] code = "T" -> Out(threshold_upper(x, y), rng)
            [] code = "r" -> reroll_once(x, y, "eq", rng)
            [] code \in {"r<", "rl"} -> reroll_once(x, y, "lt", rng)
            [] code \in {"r>", "rh"} -> reroll_once(x, y, "gt", rng)
            [] code = "R" -> reroll_unconditional(x, y, "eq", rng)
            [] code \in {"R<", "Rl"} -> reroll_unconditional_lower(x, y, rng)
            [] code \in {"R>", "Rh"} -> reroll_unconditional_higher(x, y, rng)
            [] OTHER -> Out(Lambda2(code, x, y), rng)

\* Operator.__call__(left, right)
Call_r(r, l, rng, code) ==
  IF IsErr(l) THEN Out(l, rng)
  ELSE IF IsErr(r) THEN Out(r, rng)
  ELSE Function(code, (IF l # None THEN <<l>> ELSE <<>>)
                      \o (IF r # None THEN <<r>> ELSE <<>>), rng)

Call_l(l, code, right, rng) ==
  Call_r(Cajole(HasRight(OPERATORS[code].cajole), right), l, rng, code)
Call(code, left, right, rng) ==
  Call_l(Cajole(HasLeft(OPERATORS[code].cajole), left), code, right, rng)

\* The outcome of EvalTreeNode.evaluate: the subtree with the values it has
\* cached, the value returned (or the exception), the random source after.
Evaluated(node, v, rng) == [node |-> node, v |-> v, rng |-> rng]

RECURSIVE evaluate_node(_, _)
evaluate_node_c(c, n2) ==
  IF IsErr(c.v) THEN Evaluated(n2, c.v, c.rng)
  ELSE Evaluated([n2 EXCEPT !.value = c.v], c.v, c.rng)

evaluate_node_R(R, n1, node, L) ==
  LET n2 == [n1 EXCEPT !.right = R.node]
  IN IF IsErr(R.v) THEN Evaluated(n2, R.v, R.rng)
     ELSE IF ~IsOperator(node.payload) THEN Evaluated(n2, Err("TypeError"), R.rng)
     ELSE evaluate_node_c(Call(node.payload.code, L.v, R.v, R.rng), n2)

evaluate_node_L(L, node) ==
  LET n1 == [node EXCEPT !.left = L.node]
  IN IF IsErr(L.v) THEN Evaluated(n1, L.v, L.rng)
     ELSE
       evaluate_node_R(IF node.right = None THEN Evaluated(None, None, L.rng)
                       ELSE evaluate_node(node.right, L.rng), n1, node, L)
evaluate_node(node, rng) ==
  IF is_leaf(node)
    THEN Evaluated([node EXCEPT !.value = node.payload], node.payload, rng)
  ELSE
    evaluate_node_L(IF node.left = None THEN Evaluated(None, None, rng)
                    ELSE evaluate_node(node.left, rng), node)

\* `try: return sum(final) except TypeError: return final`
\* sum('') is 0; the sum of any other str raises the TypeError
Final(v) == IF IsRoll(v) \/ IsTuple(v) THEN Sum(Items(v))
            ELSE IF v = StrTok("") THEN IntTok(0)
            ELSE v

\* The body of EvalTree.evaluate.
evaluate_body_e(e) ==
  IF IsErr(e.v) THEN e ELSE Evaluated(e.node, Final(e.v), e.rng)
evaluate_body(root, rng) ==
  IF root = None THEN Evaluated(None, IntTok(0), rng)
  ELSE evaluate_body_e(evaluate_node(root, rng))

\* EvalTree.evaluate as decorated with
\* @wrap_exceptions_with(EvaluationError, 'Failed to evaluate expression.'):
\* root is the tree after the call, v the value returned, err the exception.
evaluate_e(e) ==
  [root |-> e.node,
   v |-> IF IsErr(e.v) THEN None ELSE e.v,
   err |-> IF IsErr(e.v) THEN WrapExceptionsWith("EvaluationError", "Exception", e.v.e)
           ELSE NoErr,
   cause |-> IF IsErr(e.v) THEN e.v.e ELSE NoErr,
   rng |-> e.rng]
evaluate(root, rng) ==
  evaluate_e(evaluate_body(root, rng))

----------------------------------------------------------------------------
(* EvalTree.in_order.                                                      *)

\* What a generator yields and the exception that ends it.
Walk(nodes, err) == [walk |-> nodes, err |-> err]
Yield(nodes) == Walk(nodes, NoErr)
\* one part of a generator after another: nothing follows an exception
Then(a, b) == IF a.err # NoErr THEN a ELSE Walk(a.walk \o b.walk, b.err)

\* `parent and parent.payload > current.payload`: a bool, or the exception
\* of a comparison the payloads do not support
NeedsParens(parent, current) ==
  IF parent = None THEN BoolVal(FALSE)
  ELSE PyCompare("gt", parent.payload, current.payload)

\* No operator has a precedence this high: the abort of plain in_order().
NeverOpaque == 99

\* abort(current): `lambda node: False` of in_order(), and
\* `lambda node: node.payload.precedence >= 6` of verbose_result(), which
\* finds no precedence on a payload that is not an Operator
Opaque(current, opaqueFrom) ==
  IF opaqueFrom = NeverOpaque THEN BoolVal(FALSE)
  ELSE IF ~IsOperator(current.payload) THEN Err("AttributeError")
  ELSE BoolVal(Prec(current.payload) >= opaqueFrom)

\* __in_order_recursive; opaqueFrom stands for the abort predicate of the
\* caller.  Nodes that in_order makes up carry '(' and ')'.
RECURSIVE in_order_recursive(_, _, _)
in_order_recursive_paren(paren, current, opaqueFrom) ==
  IF IsErr(paren) THEN Walk(<<>>, paren.e)
  ELSE
    Then(Yield(IF paren.b THEN <<EvalTreeNode(StrTok("("), None, None)>> ELSE <<>>),
    Then(IF current.left # None
           THEN in_order_recursive(current.left, current, opaqueFrom) ELSE Yield(<<>>),
    Then(Yield(<<current>>),
    Then(IF current.right # None
           THEN in_order_recursive(current.right, current, opaqueFrom) ELSE Yield(<<>>),
         Yield(IF paren.b THEN <<EvalTreeNode(StrTok(")"), None, None)>> ELSE <<>>)))))
in_order_recursive_abort(abort, current, parent, opaqueFrom) ==
  IF IsErr(abort) THEN Walk(<<>>, abort.e)
  ELSE IF abort.b THEN Yield(<<current>>)
  ELSE in_order_recursive_paren(NeedsParens(parent, current), current, opaqueFrom)
in_order_recursive(current, parent, opaqueFrom) ==
  IF current = None THEN Walk(<<>>, "AttributeError")
  ELSE IF is_leaf(current) THEN Yield(<<current>>)
  ELSE in_order_recursive_abort(Opaque(current, opaqueFrom), current, parent, opaqueFrom)

in_order(root) == in_order_recursive(root, None, NeverOpaque)

----------------------------------------------------------------------------
(* conftest.trees_equal.                                                   *)

\* zip_longest pads the shorter walk with EvalTreeNode(None)
PayloadAt(walk, i) == IF i <= Len(walk) THEN walk[i].payload ELSE None

\* `if nodeA.payload != nodeB.payload: return False` along the two walks
trees_equal_diff(D, wa, wb) ==
  IF D = {} THEN BoolVal(TRUE)
  ELSE LET i == CHOOSE i \in D : \A j \in D : i <= j
       IN IF IsErr(PyEq(PayloadAt(wa, i), PayloadAt(wb, i)))
            THEN PyEq(PayloadAt(wa, i), PayloadAt(wb, i))
          ELSE BoolVal(FALSE)
trees_equal_walks(wa, wb) ==
  trees_equal_diff(
    {i \in 1..(IF Len(wa) >= Len(wb) THEN Len(wa) ELSE Len(wb)) :
       PyEq(PayloadAt(wa, i), PayloadAt(wb, i)) # BoolVal(TRUE)},
    wa, wb)

\* The first pair of an empty tree holds None, and None has no payload.
trees_equal(a, b) ==
  IF a = None \/ b = None THEN Err("AttributeError")
  ELSE trees_equal_walks(pre_order(a).walk, pre_order(b).walk)

----------------------------------------------------------------------------
(* str() of the values and verbose_result.                                 *)

\* the decimal digits of the fraction r/den (0 <= r < den, den a power of 2)
RECURSIVE FracDigits(_, _)
FracDigits(r, den) ==
  IF r = 0 THEN ""
  ELSE ToString((r * 10) \div den) \o FracDigits((r * 10) % den, den)

\* Floats below 1e-4 print in exponent notation, which the model leaves out.
MaxStrDen == 8192

\* repr() of a float is its shortest decimal that reads back as the same
\* float; that is the exact expansion as long as it has no more significant
\* digits than every double keeps.
MaxStrDigits == 15

\* the zeros between the point and the first other digit of r/den
RECURSIVE LeadingZeros(_, _)
LeadingZeros(r, den) ==
  IF r = 0 \/ r * 10 >= den THEN 0 ELSE 1 + LeadingZeros(r * 10, den)

SigDigits(whole, r, den, frac) ==
  IF whole > 0 THEN Len(ToString(whole)) + Len(frac)
  ELSE Len(frac) - LeadingZeros(r, den)

FloatStr_frac(frac, v, a) ==
  IF SigDigits(a \div v.den, a % v.den, v.den, frac) > MaxStrDigits THEN OutOfModel
  ELSE (IF Negative(v) THEN "-" ELSE "") \o ToString(a \div v.den) \o "."
       \o (IF frac = "" THEN "0" ELSE frac)
FloatStr(v) ==
  IF v.den > MaxStrDen THEN OutOfModel
  ELSE LET a == Abs(v.num)
       IN FloatStr_frac(FracDigits(a % v.den, v.den), v, a)

NumStr(v) == CASE v.k = "int" -> ToString(v.n)
               [] v.k = "bool" -> (IF v.b THEN "True" ELSE "False")
               [] v.k = "float" -> FloatStr(v)

\* ', '.join(str(item) for item in values)
RECURSIVE JoinFrom(_, _)
JoinFrom(values, i) ==
  IF i > Len(values) THEN ""
  ELSE NumStr(values[i]) \o (IF i < Len(values) THEN ", " ELSE "")
       \o JoinFrom(values, i + 1)
Join(values) == JoinFrom(values, 1)

TupleStr(sides) ==
  "(" \o Join(sides) \o (IF Len(sides) = 1 THEN "," ELSE "") \o ")"

\* Roll.__str__ and str() of the other values
RECURSIVE Str(_)
Str(v) ==
  CASE IsNumber(v) -> NumStr(v)
    [] v.k = "tuple" -> TupleStr(v.sides)
    [] v.k = "roll" ->
         "[d" \o Str(v.die) \o ": " \o Join(v.rolls)
         \o (IF v.discards # <<>> THEN "; (" \o Join(v.discards) \o ")" ELSE "")
         \o "]"
    [] v.k = "op" -> (IF OPERATORS[v.code].viewAs # "" THEN OPERATORS[v.code].viewAs
                      ELSE v.code)
    [] v.k = "str" -> v.s
    [] v.k = "None" -> "None"

\* Operators of this precedence and above are shown by their value only.
OpaquePrecedence == 6

\* to_string of verbose_result
to_string(node) ==
  IF node.payload.k = "str" THEN node.payload.s
  ELSE IF is_leaf(node) \/ Prec(node.payload) >= OpaquePrecedence THEN Str(node.value)
  ELSE Str(node.payload)

RECURSIVE Concat(_, _)
Concat(nodes, i) ==
  IF i > Len(nodes) THEN "" ELSE to_string(nodes[i]) \o Concat(nodes, i + 1)

\* verbose_result: evaluates when the root holds no value yet, then renders.
verbose_result_w(w, e) ==
  IF w.err # NoErr THEN [text |-> "", root |-> e.root, err |-> w.err, rng |-> e.rng]
  ELSE [text |-> Concat(w.walk, 1) \o " = " \o Str(Final(e.root.value)),
        root |-> e.root, err |-> NoErr, rng |-> e.rng]
verbose_result_e(e) ==
  IF e.err # NoErr THEN [text |-> "", root |-> e.root, err |-> e.err, rng |-> e.rng]
  ELSE verbose_result_w(in_order_recursive(e.root, None, OpaquePrecedence), e)
verbose_result(root, rng) ==
  IF root = None THEN [text |-> "", root |-> root, err |-> NoErr, rng |-> rng]
  ELSE
    verbose_result_e(IF root.value = None THEN evaluate(root, rng)
                     ELSE [root |-> root, err |-> NoErr, rng |-> rng])

----------------------------------------------------------------------------
(* The tokenizer (tokenizer.py).  A source string is a sequence of         *)
(* one-character strings; positions count from 0 as State.i does.          *)

Digits == {"0", "1", "2", "3", "4", "5", "6", "7", "8", "9"}
\* string.whitespace; "U+000B" and "U+000C" stand for \v and \f
Whitespace == {" ", "\t", "\n", "\r", "U+000B", "U+000C"}
\* A character for which str.isspace() holds although string.whitespace
\* does not list it; "U+00A0" stands for the no-break space.
OtherSpace == {"U+00A0"}
isspace(char) == char \in Whitespace \cup OtherSpace

\* the characters of the operator codes
OperatorChars ==
  {"!", "d", "a", "c", "m", "h", "l", "f", "r", "R", "<", ">", "t", "T", "^", "p",
   "*", "/", "%", "-", "+", "g", "e", "=", "|", "&"}

\* State._recognized
recognized ==
  (OperatorChars \ {"p"}) \cup Digits \cup {".", "F", ","} \cup {"[", "]", "(", ")"}
  \cup Whitespace

\* Binary.codes and Die.codes
BinaryCodes ==
  {c \in Codes : OPERATORS[c].arity = BOTH /\ c \notin {"d", "da", "dc", "dm"}}
DieCodes == {"d", "da", "dc", "dm"}
\* Binary.starters: the first characters of Binary.codes
BinaryStarters ==
  {"%", "&", "*", "+", "-", "/", "<", "=", ">", "R", "T", "^", "c", "f", "g", "h",
   "l", "r", "t", "|"}

\* No one will have a million-digit integer right?
Unlimited == 1000000

starters(cls) ==
  CASE cls = "Integer" -> Digits
    [] cls = "Binary" -> BinaryStarters
    [] cls = "UnaryPrefix" -> {"+", "-"}
    [] cls = "UnarySuffix" -> {"!"}
    [] cls = "Die" -> {"d"}
    [] cls = "FudgeDie" -> {"F"}
    [] cls = "ListToken" -> {"["}
    [] cls = "ListStart" -> {"["}
    [] cls = "ListValue" -> Digits \cup {"."}
    [] cls = "ListSeparator" -> {","}
    [] cls = "ListEnd" -> {"]"}
    [] cls = "OpenParen" -> {"("}
    [] cls = "CloseParen" -> {")"}
    [] cls \in {"ExprStart", "ExprEnd"} -> recognized
    [] OTHER -> {}

consumes(cls) ==
  CASE cls \in {"Integer", "ListValue"} -> Unlimited
    [] cls \in {"ExprStart", "ExprEnd"} -> 0
    [] OTHER -> 1

\* The fudge die and the side list allowed wherever an operand may start.
followers_SidesAnywhere(cls) ==
  CASE cls \in {"Integer", "UnarySuffix", "FudgeDie", "ListToken", "ListEnd",
                "CloseParen"} -> <<"ExprEnd", "InputEnd">>
    [] cls \in {"Binary", "UnaryPrefix", "OpenParen"} -> <<"ExprStart">>
    [] cls = "Die" -> <<"Integer", "ListToken", "FudgeDie", "OpenParen">>
    [] cls \in {"ListStart", "ListSeparator"} -> <<"ListValue">>
    [] cls = "ListValue" -> <<"ListSeparator", "ListEnd">>
    [] cls = "ExprStart" -> <<"OpenParen", "UnaryPrefix", "Integer", "ListToken", "FudgeDie">>
    [] cls = "ExprEnd" -> <<"UnarySuffix", "Binary", "Die", "CloseParen", "InputEnd">>
    [] cls = "InputStart" -> <<"ExprStart", "InputEnd">>
    [] OTHER -> <<>>

followers(cls) ==
  CASE cls \in {"Integer", "UnarySuffix", "FudgeDie", "ListToken", "ListEnd",
                "CloseParen"} -> <<"ExprEnd", "InputEnd">>
    [] cls \in {"Binary", "UnaryPrefix", "OpenParen"} -> <<"ExprStart">>
    [] cls = "Die" -> <<"Integer", "ListToken", "FudgeDie", "OpenParen">>
    [] cls \in {"ListStart", "ListSeparator"} -> <<"ListValue">>
    [] cls = "ListValue" -> <<"ListSeparator", "ListEnd">>
    [] cls = "ExprStart" -> <<"OpenParen", "UnaryPrefix", "Integer">>
    [] cls = "ExprEnd" -> <<"UnarySuffix", "Binary", "Die", "CloseParen", "InputEnd">>
    [] cls = "InputStart" -> <<"ExprStart", "InputEnd">>
    [] OTHER -> <<>>

StateClasses ==
  {"InputStart", "InputEnd", "ExprStart", "ExprEnd", "Integer", "Binary",
   "UnaryPrefix", "UnarySuffix", "Die", "FudgeDie", "ListToken", "ListStart",
   "ListValue", "ListSeparator", "ListEnd", "OpenParen", "CloseParen"}

Goto(cls, i) == [k |-> "state", cls |-> cls, i |-> i]
ParseError(msg, offset) ==
  [k |-> "raise", e |-> "ParseError", msg |-> msg, offset |-> offset]

CharAt(expr, i) == expr[i + 1]

\* ''.join(agg)
RECURSIVE JoinChars(_, _)
JoinChars(agg, i) == IF i > Len(agg) THEN "" ELSE agg[i] \o JoinChars(agg, i + 1)

\* State._illegal_character
illegal_character(char, i) ==
  ParseError(CASE char = "F" -> "F is the 'fudge dice' value, and must appear as the side specifier of a roll."
               [] char = ")" -> "Unexpectedly terminated expression."
               [] OTHER -> char \o " is not allowed in this position.",
             i)

\* `for typ in self.followers: if char in typ.starters: return typ(expr, i)`
RECURSIVE FirstFollower(_, _, _, _)
FirstFollower(fs, k, char, i) ==
  IF k > Len(fs) THEN illegal_character(char, i)
  ELSE IF char \in starters(fs[k]) THEN Goto(fs[k], i)
  ELSE FirstFollower(fs, k + 1, char, i)

\* A next_state whose OpenParen starts the expression where it stands.
next_state_ParenStays(cls, i, char, agg) ==
  CASE cls \in {"Binary", "Die"} ->
         IF (JoinChars(agg, 1) \o char)
              \in (IF cls = "Die" THEN DieCodes ELSE BinaryCodes)
            \/ Len(agg) = 0
           THEN None
         ELSE FirstFollower(followers(cls), 1, char, i)
    [] cls \in {"FudgeDie", "CloseParen"} -> Goto("ExprEnd", i + 1)
    [] cls = "OpenParen" -> Goto("ExprStart", i)
    [] OTHER ->
         IF Len(agg) < consumes(cls) /\ char \in starters(cls) THEN None
         ELSE FirstFollower(followers(cls), 1, char, i)

\* next_state of the class: None to keep aggregating, the next State, or
\* the ParseError of an illegal character
next_state(cls, i, char, agg) ==
  CASE cls \in {"Binary", "Die"} ->
         IF (JoinChars(agg, 1) \o char)
              \in (IF cls = "Die" THEN DieCodes ELSE BinaryCodes)
            \/ Len(agg) = 0
           THEN None
         ELSE FirstFollower(followers(cls), 1, char, i)
    [] cls \in {"FudgeDie", "CloseParen"} -> Goto("ExprEnd", i + 1)
    [] cls = "OpenParen" -> Goto("ExprStart", i + 1)
    [] OTHER ->
         IF Len(agg) < consumes(cls) /\ char \in starters(cls) THEN None
         ELSE FirstFollower(followers(cls), 1, char, i)


DigitVal(char) ==
  CASE char = "0" -> 0 [] char = "1" -> 1 [] char = "2" -> 2 [] char = "3" -> 3
    [] char = "4" -> 4 [] char = "5" -> 5 [] char = "6" -> 6 [] char = "7" -> 7
    [] char = "8" -> 8 [] char = "9" -> 9

\* the number written by the digits of agg, read left to right
RECURSIVE DigitsVal(_, _, _)
DigitsVal(acc, agg, i) ==
  IF i > Len(agg) \/ acc > IntCap THEN acc
  ELSE DigitsVal(acc * 10 + DigitVal(agg[i]), agg, i + 1)

\* int(''.join(agg)): a ValueError for the empty string
ParseInt(agg) == IF agg = <<>> THEN Err("ValueError") ELSE MkInt(DigitsVal(0, agg, 1))

SelectChars(agg, set) == SelectSeq(agg, LAMBDA ch : ch \in set)

\* float(''.join(agg)) for a run of digits and points: a ValueError unless
\* there is a digit and at most one point
ParseFloat_digits(digits, agg) ==
  LET points == Len(agg) - Len(digits)
      \* the digits after the point
      places == IF points = 0 THEN 0
                ELSE Len(agg) - (CHOOSE j \in 1..Len(agg) : agg[j] = ".")
  IN IF points > 1 \/ digits = <<>> THEN Err("ValueError")
     ELSE IF Len(digits) > 4 THEN Err(OutOfModel)
     ELSE MkFloat(DigitsVal(0, digits, 1), IntPow(10, places))
ParseFloat(agg) ==
  ParseFloat_digits(SelectChars(agg, Digits), agg)

\* collect of the class: the token, None for a marker state, or a ParseError
collect_f(f, agg, i) ==
  IF IsErr(f) /\ f.e = "ValueError"
    THEN ParseError(JoinChars(agg, 1)
                    \o " cannot be interpreted as a decimal number.",
                    i - Len(agg))
  ELSE f

\* The sign looked up by its own character, as a binary operator is.
UnaryPrefix_collect_ByCharacter(agg) == OpTok(agg[1])

\* UnaryPrefix.collect: the sign operator for the character
UnaryPrefix_collect(agg) ==
  IF agg[1] = "+" THEN OpTok("p")
  ELSE IF agg[1] = "-" THEN OpTok("m") ELSE None

collect_code(code, i, agg) ==
  IF code \in Codes THEN OpTok(code)
  ELSE ParseError("Invalid operator.", i - Len(agg))
collect(cls, agg, i) ==
  CASE cls = "Integer" -> ParseInt(agg)
    [] cls \in {"Binary", "Die", "UnarySuffix"} ->
         collect_code(JoinChars(agg, 1), i, agg)
    [] cls = "UnaryPrefix" -> UnaryPrefix_collect(agg)
    [] cls = "FudgeDie" -> TupleTok(<<IntTok(-1), IntTok(0), IntTok(1)>>)
    [] cls = "ListValue" ->
         collect_f(ParseFloat(agg), agg, i)
    [] cls = "OpenParen" -> StrTok("(")
    [] cls = "CloseParen" -> StrTok(")")
    [] OTHER -> None

\* the outcome of State.run: the token collected and the next State
Ran(token, next) == [k |-> "ran", token |-> token, next |-> next]

\* `return self.collect(agg), forward`
Return_token(token, forward) ==
  IF IsErr(token) THEN token ELSE Ran(token, forward)
Return(cls, agg, i, forward) ==
  Return_token(collect(cls, agg, i), forward)

\* The pending run flushed whatever the state is.
end_of_input_Flush(cls, agg, i) == Return(cls, agg, i, Goto("InputEnd", i))

\* State._end_of_input
end_of_input(cls, agg, i) ==
  IF \E k \in 1..Len(followers(cls)) : followers(cls)[k] = "InputEnd"
    THEN Return(cls, agg, i, Goto("InputEnd", i))
  ELSE ParseError("Unexpected end of expression.", i)

\* State._slurp_whitespace: the first position at or after i without a space
RECURSIVE slurp_whitespace(_, _)
slurp_whitespace(expr, i) ==
  IF i < Len(expr) /\ isspace(CharAt(expr, i)) THEN slurp_whitespace(expr, i + 1)
  ELSE i

\* State.run: the loop over the characters from position i
RECURSIVE run_from(_, _, _, _)
run_from_forward(forward, cls, expr, i, agg, char) ==
  IF forward = None THEN run_from(cls, expr, i + 1, Append(agg, char))
  ELSE IF IsErr(forward) THEN forward
  ELSE Return(cls, agg, i, forward)

run_from_forward2(forward, j, cls, agg) ==
  IF forward = None
    THEN ParseError("Token is already broken.", j)
  ELSE IF IsErr(forward) THEN forward
  ELSE Return(cls, agg, j, forward)

run_from_j(j, expr, cls, agg) ==
  IF j >= Len(expr) THEN end_of_input(cls, agg, j)
  ELSE run_from_forward2(next_state(cls, j, CharAt(expr, j), agg), j, cls, agg)

run_from_char(char, i, expr, cls, agg) ==
  IF char \notin recognized
    THEN ParseError("Unrecognized character detected.", i)
  ELSE IF isspace(char)
    THEN run_from_j(slurp_whitespace(expr, i), expr, cls, agg)
  ELSE run_from_forward(next_state(cls, i, char, agg), cls, expr, i, agg, char)
run_from(cls, expr, i, agg) ==
  IF i >= Len(expr) THEN end_of_input(cls, agg, i)
  ELSE
    run_from_char(CharAt(expr, i), i, expr, cls, agg)

\* ListToken.run: the sub-machine from ListStart to ListEnd
RECURSIVE list_run(_, _, _, _)
list_run_r(r, expr, sides) ==
  IF IsErr(r) THEN r
  ELSE list_run(r.next.cls, expr, r.next.i,
                IF r.token # None THEN Append(sides, r.token) ELSE sides)
list_run(cls, expr, i, sides) ==
  IF cls = "ListEnd" THEN Ran(TupleTok(sides), Goto("ExprEnd", i + 1))
  ELSE list_run_r(run_from(cls, expr, i, <<>>), expr, sides)

\* state.run() for a State of class cls at position i
run(cls, expr, i) ==
  IF cls = "ListToken" THEN list_run("ListStart", expr, i, <<>>)
  ELSE run_from(cls, expr, i, <<>>)

Count(expr, char) == Len(SelectChars(expr, {char}))
\* s.find(char) / s.rfind(char) for a character that occurs in s
Find(expr, char) == (CHOOSE j \in 1..Len(expr) :
                       expr[j] = char /\ \A h \in 1..(j - 1) : expr[h] # char) - 1
RFind(expr, char) == (CHOOSE j \in 1..Len(expr) :
                        expr[j] = char /\ \A h \in (j + 1)..Len(expr) : expr[h] # char) - 1

\* The parenthesis count that tokens_lazy starts with: the ParseError it
\* raises, or None.
paren_check(expr) ==
  LET opens == Count(expr, "(")
      closes == Count(expr, ")")
  IN IF opens > closes
       THEN ParseError("Unclosed parenthesis detected.", Find(expr, "("))
     ELSE IF closes > opens
       THEN ParseError("Unopened parenthesis detected.", RFind(expr, ")"))
     ELSE None

\* the `while not isinstance(state, InputEnd)` loop of tokens_lazy
RECURSIVE tokens_from(_, _, _, _)
tokens_from_r(r, expr, acc) ==
  IF IsErr(r) THEN [tokens |-> <<>>, err |-> r]
  ELSE tokens_from(r.next.cls, expr, r.next.i,
                   IF r.token # None THEN Append(acc, r.token) ELSE acc)
tokens_from(cls, expr, i, acc) ==
  IF cls = "InputEnd" THEN [tokens |-> acc, err |-> None]
  ELSE tokens_from_r(run(cls, expr, i), expr, acc)

\* tokens(s) = list(tokens_lazy(s)): the token list, or the exception
tokens_p(p, expr) ==
  IF p # None THEN [tokens |-> <<>>, err |-> p]
  ELSE tokens_from("InputStart", expr, 0, <<>>)
tokens(expr) ==
  tokens_p(paren_check(expr), expr)

----------------------------------------------------------------------------
(* EvalTree.__init__ and the entry points of core.py.  A source is         *)
(* [k |-> "str", chars], [k |-> "list", tokens], [k |-> "tree", root], a   *)
(* number or None.                                                         *)
StrSrc(chars) == [k |-> "str", chars |-> chars]
ListSrc(toklist) == [k |-> "list", tokens |-> toklist]
TreeSrc(root) == [k |-> "tree", root |-> root]

Built(root, err, detail) == [root |-> root, err |-> err, detail |-> detail]

\* EvalTree(source): the root of the new tree, or the exception raised;
\* detail is the ParseError of the tokenizer, or the exception that the tree
\* builder raised inside its wrapper.
EvalTreeInit_f(f) ==
  Built(f.root, f.err, [k |-> "cause", e |-> f.cause])

EvalTreeInit_f2(f) ==
  Built(f.root, f.err, [k |-> "cause", e |-> f.cause])

EvalTreeInit_t(t) ==
  IF t.err # None THEN Built(None, t.err.e, t.err)
  ELSE EvalTreeInit_f2(from_tokens(t.tokens))
EvalTreeInit(src) ==
  CASE src.k = "str" ->
         EvalTreeInit_t(tokens(src.chars))
    [] src.k = "tree" -> Built(src.root, NoErr, None)
    [] src.k = "list" ->
         EvalTreeInit_f(from_tokens(src.tokens))
    [] src.k \in {"int", "float", "bool"} ->
         Built(EvalTreeNode(src, None, None), NoErr, None)
    [] src.k = "None" -> Built(None, NoErr, None)
    [] OTHER -> Built(None, "InputTypeError", None)

Modes == {"NORMAL", "AVERAGE", "CRIT", "MAX"}

\* the `if mode:` block of basic and verbose
ApplyMode(root, mode) ==
  CASE mode = "AVERAGE" -> averageify(root)
    [] mode = "CRIT" -> critify(root)
    [] mode = "MAX" -> maxify(root)
    [] OTHER -> [root |-> root, err |-> NoErr]

\* _add_modifiers: a new '+' root above the old one
add_modifiers(root, modifiers) ==
  EvalTreeNode(OpTok("+"), root, EvalTreeNode(modifiers, None, None))

\* What a call leaves behind: the value returned, the exception raised, the
\* root that the tree handed in (if one was) has afterwards, the random
\* source.
Outcome(v, err, root, rng) == [v |-> v, err |-> err, root |-> root, rng |-> rng]

\* core.basic(expr, mode, modifiers)
basic_total(total, e) ==
  IF IsErr(total)
    THEN Outcome(None, total.e, e.root, e.rng)
  ELSE Outcome(total, NoErr, e.root, e.rng)

basic_e(e, modifiers) ==
  IF e.err # NoErr THEN Outcome(None, e.err, e.root, e.rng)
  ELSE basic_total(Add(e.v, modifiers), e)

basic_m(m, rng, modifiers) ==
  IF m.err # NoErr THEN Outcome(None, m.err, m.root, rng)
  ELSE basic_e(evaluate(m.root, rng), modifiers)

basic_t(t, rng, mode, modifiers) ==
  IF t.err # NoErr THEN Outcome(None, t.err, None, rng)
  ELSE basic_m(ApplyMode(t.root, mode), rng, modifiers)

basic_total2(total, rng) ==
  IF IsErr(total) THEN Outcome(None, total.e, None, rng)
  ELSE Outcome(total, NoErr, None, rng)
basic(expr, mode, modifiers, rng) ==
  IF expr.k \in {"int", "float", "bool"}
    THEN basic_total2(Add(expr, modifiers), rng)
  ELSE IF expr.k \notin {"str", "tree"} THEN Outcome(None, "InputTypeError", None, rng)
  ELSE
    basic_t(EvalTreeInit(expr), rng, mode, modifiers)

\* The old root inside the root that _add_modifiers put above it.
Below(root, modifiers) == IF Num(modifiers) # 0 THEN root.left ELSE root

\* core.verbose(expr, mode, modifiers): v is the text returned
verbose_r(r, modifiers) ==
  Outcome(r.text, r.err, Below(r.root, modifiers), r.rng)

verbose_e(e, modifiers) ==
  IF e.err # NoErr
    THEN Outcome(None, e.err, Below(e.root, modifiers), e.rng)
  ELSE verbose_r(verbose_result(e.root, e.rng), modifiers)

verbose_m(m, rng, modifiers) ==
  IF m.err # NoErr THEN Outcome(None, m.err, m.root, rng)
  ELSE
    LET top == IF Num(modifiers) # 0 THEN add_modifiers(m.root, modifiers)
               ELSE m.root
    IN verbose_e(evaluate(top, rng), modifiers)

verbose_t(t, rng, mode, modifiers) ==
  IF t.err # NoErr THEN Outcome(None, t.err, None, rng)
  ELSE verbose_m(ApplyMode(t.root, mode), rng, modifiers)
verbose(expr, mode, modifiers, rng) ==
  IF expr.k \notin {"str", "int", "float", "bool", "tree"}
    THEN Outcome(None, "InputTypeError", None, rng)
  ELSE
    verbose_t(EvalTreeInit(expr), rng, mode, modifiers)

\* core.compile(expr, modifiers)
compile_t(t, modifiers) ==
  IF t.err # NoErr \/ Num(modifiers) = 0 THEN t
  ELSE Built(add_modifiers(t.root, modifiers), NoErr, None)
compile(expr, modifiers) ==
  IF expr.k \notin {"str", "int", "float", "bool"}
    THEN Built(None, "InputTypeError", None)
  ELSE compile_t(EvalTreeInit(expr), modifiers)

----------------------------------------------------------------------------
(* The life of one expression: built from a source, then transformed,      *)
(* walked, evaluated and rendered in any order.                           *)

\* Operands of the generated sources are 0..MaxValue.
MaxValue == 2
\* Generated token lists have at most MaxTokens tokens.
MaxTokens == 3
\* The random source hands out raw draws 0..MaxRaw.
MaxRaw == 2

Values == {IntTok(n) : n \in 0..MaxValue}

\* The operators that the generated infix sources are made of.
InfixCodes == {"<", "+", "-", "*", "^", "h", "d"}
\* What the short token lists are made of.
ShortTokens ==
  Values \cup {OpTok(c) : c \in {"+", "-", "*", "^", "m", "!", "d", "dc"}}
         \cup {StrTok("("), StrTok(")")}

RECURSIVE ListsUpTo(_, _)
ListsUpTo_shorter(shorter, n, S) ==
  shorter \cup {Append(l, x) : l \in {m \in shorter : Len(m) = n - 1}, x \in S}
ListsUpTo(S, n) ==
  IF n = 0 THEN {<<>>}
  ELSE ListsUpTo_shorter(ListsUpTo(S, n - 1), n, S)

ShortLists == ListsUpTo(ShortTokens, MaxTokens)

\* a A b B c
Infix == {<<a, OpTok(A), b, OpTok(B), c>> :
            a \in Values, A \in InfixCodes, b \in Values, B \in InfixCodes, c \in Values}

\* a A (b B c) and (a A b) B c for the arithmetic operators
ArithCodes == {"+", "-", "*", "/", "^"}
ParenRight == {<<a, OpTok(A), StrTok("("), b, OpTok(B), c, StrTok(")")>> :
                 a \in Values, A \in ArithCodes, b \in Values, B \in ArithCodes,
                 c \in Values}
ParenLeft == {<<StrTok("("), a, OpTok(A), b, StrTok(")"), OpTok(B), c>> :
                a \in Values, A \in ArithCodes, b \in Values, B \in ArithCodes,
                c \in Values}

\* Expressions of the test suite and of the documentation, as strings.
Samples ==
  {<<"3", "+", "4", "-", "5">>,
   <<"3", "^", "2", "^", "4">>,
   <<"2", "d", "6", "+", "5", "*", "2", "^", "2">>,
   <<"1", "+", "(", "2", "*", "4", ")">>,
   <<"2", "*", "(", "4", "+", "8", ")">>,
   <<"1", "-", "(", "2", "-", "3", ")">>,
   <<"(", "1", "-", "2", ")", "-", "3">>,
   <<"2", "^", "(", "3", "^", "2", ")">>,
   <<"(", "2", "^", "3", ")", "^", "2">>,
   <<"-", "(", "-", "1", ")">>,
   <<"-", "-", "1">>,
   <<"2", "^", "-", "1">>,
   <<"4", "!", "+", "3">>,
   <<"(", "0", "-", "1", ")", "!">>,
   <<"1", "/", "0">>,
   <<"2", "d", "3", "h", "(", "3", "/", "2", ")">>,
   <<"2", "d", "3", "h", "1">>,
   <<"1", "d", "3", "R", ">", "0">>,
   <<"(", "1", "+", "2">>,
   <<"1", "+", "2", ")">>,
   <<"1", "+">>,
   <<"1", "d", "[", "1", ",", "2", "]">>,
   <<"2", "d", "F">>,
   <<"7", "/", "2">>,
   <<"(", "2", ")", "*", "(", "4", "+", "8", ")">>,
   <<"2", "*", "-", "1">>,
   <<>>,
   <<"1", "d", "0">>,
   <<"2", "d", "3", "l", "1", "+", "1">>,
   <<"1", " ", "+", " ", "2">>,
   <<"1", "d", "a", "2", "+", "1", "d", "2">>,
   <<"1", "d", "c", "2", "-", "1", "d", "m", "2">>}

\* "NdS"
MaxDice == 3
MaxSides == 3
DiceStrings == {<<ToString(n), "d", ToString(s)>> : n \in 0..MaxDice, s \in 0..MaxSides}

TreeSources ==
  {ListSrc(l) : l \in ShortLists \cup Infix \cup ParenRight \cup ParenLeft}
  \cup {StrSrc(x) : x \in Samples}
  \cup {IntTok(2), None, TupleTok(<<IntTok(1)>>)}

\* What the entry points of core.py are called with.
RollSources ==
  {StrSrc(x) : x \in Samples \cup DiceStrings}
  \cup {IntTok(2), MkFloat(3, 2), BoolVal(TRUE), None, ListSrc(<<IntTok(1)>>)}

\* Random sources that hand out the same raw number at every draw.
Forced == {Rng(<<>>, b) : b \in 0..MaxRaw}
Modifiers == {IntTok(0), IntTok(1)}

NoAux == [op |-> "none"]
NoRoots == [a |-> 0, b |-> 0, r |-> 0, made |-> "none"]

InitTree ==
  /\ source \in TreeSources
  /\ pc = "new"
  /\ st = "" /\ pos = 0 /\ toks = <<>>
  /\ raised = NoErr
  /\ tree = None
  /\ aux = NoAux
  /\ applied = 0
  /\ heap = <<>> /\ roots = NoRoots
  /\ rolled = None

\* tree = EvalTree(source)
Build ==
  /\ pc = "new"
  /\ \E t \in {EvalTreeInit(source)} :
        /\ pc' = IF t.err = NoErr THEN "built" ELSE "failed"
        /\ tree' = t.root
        /\ raised' = t.err
        /\ aux' = [op |-> "EvalTree", detail |-> t.detail]
  /\ UNCHANGED <<source, st, pos, toks, applied, heap, roots, rolled>>

Rank(mode) ==
  CASE mode = "AVERAGE" -> 1 [] mode = "CRIT" -> 2 [] mode = "MAX" -> 3 [] OTHER -> 0
Higher(a, b) == IF a > b THEN a ELSE b

\* tree.averageify(), tree.critify(), tree.maxify()
TransformTree(mode) ==
  /\ pc = "built"
  /\ \E m \in {ApplyMode(tree, mode)} :
        /\ tree' = m.root
        /\ raised' = m.err
        /\ applied' = IF m.err = NoErr THEN Higher(applied, Rank(mode)) ELSE applied
        /\ aux' = [op |-> "transform", mode |-> mode]
  /\ UNCHANGED <<source, pc, st, pos, toks, heap, roots, rolled>>

Averageify == TransformTree("AVERAGE")
Critify == TransformTree("CRIT")
Maxify == TransformTree("MAX")

\* tree.evaluate()
Evaluate ==
  /\ pc = "built"
  /\ \E rng \in Forced :
       \E e \in {evaluate(tree, rng)} :
          /\ tree' = e.root
          /\ raised' = e.err
          /\ aux' = [op |-> "evaluate", v |-> e.v, cause |-> e.cause, log |-> e.rng.log]
  /\ UNCHANGED <<source, pc, st, pos, toks, applied, heap, roots, rolled>>

\* tree.verbose_result()
VerboseResult ==
  /\ pc = "built"
  /\ \E rng \in Forced :
       \E r \in {verbose_result(tree, rng)} :
          /\ tree' = r.root
          /\ raised' = r.err
          /\ aux' = [op |-> "verbose_result", text |-> r.text, fresh |-> tree = None \/ tree.value = None]
  /\ UNCHANGED <<source, pc, st, pos, toks, applied, heap, roots, rolled>>

\* the list of the payloads that in_order() yields: lost when the walk raises
WalkedPayloads(w) == IF w.err # NoErr THEN <<>> ELSE Payloads(w.walk)

\* EvalTree([node.payload for node in tree.in_order()]): the tree is walked
\* and built again; an exception of the walk ends the statement
InOrder ==
  /\ pc = "built"
  /\ \E w \in {in_order(tree)} :
       \E again \in {IF w.err # NoErr THEN [root |-> None, err |-> w.err]
                     ELSE from_tokens(Payloads(w.walk))} :
          /\ raised' = again.err
          /\ aux' = [op |-> "in_order", walk |-> WalkedPayloads(w), again |-> again.root]
  /\ UNCHANGED <<source, pc, st, pos, toks, tree, applied, heap, roots, rolled>>

\* basic(tree, mode) on the compiled tree, modifiers left at their default
Basic ==
  /\ pc = "built"
  /\ \E mode \in Modes, modifiers \in {IntTok(0)}, rng \in Forced :
       \E o \in {basic(TreeSrc(tree), mode, modifiers, rng)} :
          /\ tree' = o.root
          /\ raised' = o.err
          /\ applied' = IF tree = None THEN applied ELSE Higher(applied, Rank(mode))
          /\ aux' = [op |-> "basic", mode |-> mode, modifiers |-> modifiers,
                     v |-> o.v, log |-> o.rng.log]
  /\ UNCHANGED <<source, pc, st, pos, toks, heap, roots, rolled>>

\* verbose(tree, mode) on the compiled tree, modifiers left at their default
Verbose ==
  /\ pc = "built"
  /\ \E mode \in Modes, modifiers \in {IntTok(0)}, rng \in Forced :
       \E o \in {verbose(TreeSrc(tree), mode, modifiers, rng)} :
          /\ tree' = o.root
          /\ raised' = o.err
          /\ applied' = IF tree = None THEN applied ELSE Higher(applied, Rank(mode))
          /\ aux' = [op |-> "verbose", mode |-> mode, modifiers |-> modifiers,
                     v |-> o.v, log |-> o.rng.log]
  /\ UNCHANGED <<source, pc, st, pos, toks, heap, roots, rolled>>

\* basic(source, mode, modifiers) on what was typed: nothing is kept
BasicSource ==
  /\ pc = "new"
  /\ \E mode \in Modes, modifiers \in Modifiers, rng \in Forced :
       \E o \in {basic(source, mode, modifiers, rng)} :
          /\ raised' = o.err
          /\ aux' = [op |-> "basic", mode |-> mode, modifiers |-> modifiers,
                     v |-> o.v, log |-> o.rng.log]
  /\ UNCHANGED <<source, pc, st, pos, toks, tree, applied, heap, roots, rolled>>

\* verbose(source, mode, modifiers) on what was typed
VerboseSource ==
  /\ pc = "new"
  /\ \E mode \in Modes, modifiers \in Modifiers, rng \in Forced :
       \E o \in {verbose(source, mode, modifiers, rng)} :
          /\ raised' = o.err
          /\ aux' = [op |-> "verbose", mode |-> mode, modifiers |-> modifiers,
                     v |-> o.v, log |-> o.rng.log]
  /\ UNCHANGED <<source, pc, st, pos, toks, tree, applied, heap, roots, rolled>>

NextTree ==
  \/ Build
  \/ Evaluate
  \/ VerboseResult
  \/ InOrder

SpecTree == InitTree /\ [][NextTree]_vars

\* The entry points of core.py, called over and over on one expression and
\* on the tree compiled from it.
InitRoll ==
  /\ source \in RollSources
  /\ pc = "new"
  /\ st = "" /\ pos = 0 /\ toks = <<>>
  /\ raised = NoErr
  /\ tree = None
  /\ aux = NoAux
  /\ applied = 0
  /\ heap = <<>> /\ roots = NoRoots
  /\ rolled = None

\* tree = compile(source)
Compile ==
  /\ pc = "new"
  /\ \E t \in {compile(source, IntTok(0))} :
        /\ pc' = IF t.err = NoErr THEN "built" ELSE "failed"
        /\ tree' = t.root
        /\ raised' = t.err
        /\ aux' = [op |-> "compile", detail |-> t.detail]
  /\ UNCHANGED <<source, st, pos, toks, applied, heap, roots, rolled>>

NextRoll ==
  \/ Compile
  \/ Averageify \/ Critify \/ Maxify
  \/ Basic
  \/ Verbose
  \/ BasicSource
  \/ VerboseSource

SpecRoll == InitRoll /\ [][NextRoll]_vars

----------------------------------------------------------------------------
(* The tokenizer, one State.run() at a time: tokens_lazy is a generator    *)
(* that holds the current State between the tokens it yields.  st and pos  *)
(* are the class and the position of that State, toks the tokens yielded   *)
(* so far and aux.at the offset in the string where each of them starts.   *)
MaxChars == 4
TokChars == {"1", "+", "-", "(", ")", "!", "d", "*", " ", "F", "[", "x", "U+00A0"}
ExprStrings == UNION {[1..n -> TokChars] : n \in 0..MaxChars}

\* Longer strings: a sign behind a two-character dice operator, and side
\* lists, which need five characters at least.
TokSamples ==
  {<<"1", "d", "c", "-", "1">>,
   <<"1", "d", "a", " ", "+", "1">>,
   <<"1", "d", "m", "\t", " ", "-">>,
   <<"1", "d", "[", "1", "]">>,
   <<"1", "d", "[", "1", ",", "2", "]">>,
   <<"1", "d", "[", "1", ".", "5", ",", "2", "]">>,
   <<"1", "d", " ", "[", "1", "]">>,
   <<"1", "d", "c", "[", "2", "]">>,
   <<"1", "d", "a", "[", "2", "]">>,
   <<"1", "d", "m", "[", "2", "]">>,
   <<"1", "d", "[", "1", "]", "+", "1">>,
   <<"1", "d", "[", "1", "]", "[", "1", "]">>,
   <<"1", "d", "(", "[", "1", "]", ")">>,
   <<"1", "+", "[", "1", "]">>,
   <<"(", "[", "1", "]", ")">>,
   <<"1", "d", "[", "1", ",", "x", "]">>,
   <<"1", "d", "[", "1", ",", " ", "x", "]">>,
   <<"1", "d", "[", "1", ",", " ", "U+00A0", "2", "]">>,
   <<"1", "d", "[", "x", "]">>,
   <<"1", "d", "[", "1", "]", " ", "x">>,
   <<"1", "d", "[", "1", ",", "2">>,
   <<"1", "d", "[", "]">>,
   <<"1", "d", "[", "1", ",">>,
   <<"1", "<", "=">>,
   <<"1", "<", "=", "2">>,
   <<"1", "d", "c">>,
   <<"1", "d", "c", " ">>,
   <<"1", "2", "!", " ", " ">>,
   <<"1", "0", "2">>,
   <<"1", ")", "+", "(", "1">>,
   <<"(", "1", ")", "+", "(", "1", ")">>,
   <<"(", "(", "1", ")", ")">>}

InitTok ==
  /\ source \in {StrSrc(x) : x \in ExprStrings \cup TokSamples}
  /\ pc = "new"
  /\ st = "" /\ pos = 0 /\ toks = <<>>
  /\ raised = NoErr
  /\ tree = None
  /\ aux = NoAux
  /\ applied = 0
  /\ heap = <<>> /\ roots = NoRoots
  /\ rolled = None

\* the parenthesis count, then `state = InputStart(s, 0)`
TokStart ==
  /\ pc = "new"
  /\ \E p \in {paren_check(source.chars)} :
       IF p # None
         THEN /\ pc' = "failed"
              /\ raised' = p.e
              /\ aux' = [op |-> "tokens", at |-> <<>>, detail |-> p]
              /\ UNCHANGED <<st, pos>>
       ELSE /\ pc' = "scan"
            /\ st' = "InputStart"
            /\ pos' = 0
            /\ raised' = NoErr
            /\ aux' = [op |-> "tokens", at |-> <<>>, detail |-> None]
  /\ UNCHANGED <<source, toks, tree, applied, heap, roots, rolled>>

\* `token, state = state.run()` and the yield of the token
TokStep ==
  /\ pc = "scan"
  /\ st # "InputEnd"
  /\ \E r \in {run(st, source.chars, pos)} :
       IF IsErr(r)
         THEN /\ pc' = "failed"
              /\ raised' = r.e
              /\ aux' = [aux EXCEPT !.detail = r]
              /\ UNCHANGED <<st, pos, toks>>
       ELSE /\ st' = r.next.cls
            /\ pos' = r.next.i
            /\ toks' = IF r.token # None THEN Append(toks, r.token) ELSE toks
            /\ aux' = [aux EXCEPT !.at = IF r.token # None THEN Append(@, pos) ELSE @]
            /\ UNCHANGED <<pc, raised>>
  /\ UNCHANGED <<source, tree, applied, heap, roots, rolled>>

\* the loop ends at InputEnd and the generator is exhausted
TokFinish ==
  /\ pc = "scan"
  /\ st = "InputEnd"
  /\ pc' = "done"
  /\ UNCHANGED <<source, st, pos, toks, raised, tree, aux, applied, heap, roots, rolled>>

NextTok == TokStart \/ TokStep \/ TokFinish

SpecTok == InitTok /\ [][NextTok]_vars

----------------------------------------------------------------------------
(* Trees as objects.  EvalTree + EvalTree, EvalTree - EvalTree, copy() and *)
(* the in-place += and -= differ in which EvalTreeNode objects the result  *)
(* shares with its operands, so here every node is an object of the heap,  *)
(* named by its index, and left and right hold indexes (0 for None).       *)
HeapNode(payload, left, right, value) ==
  [payload |-> payload, left |-> left, right |-> right, value |-> value]

Allocated(h, id) == [heap |-> h, id |-> id]

\* The nodes of a tree as new objects of the heap: what EvalTree(source)
\* leaves behind.
RECURSIVE StoreTree(_, _)
StoreTree_r(r, l, node) ==
  Allocated(Append(r.heap, HeapNode(node.payload, l.id, r.id, node.value)),
            Len(r.heap) + 1)
StoreTree_l(l, node) == StoreTree_r(StoreTree(l.heap, node.right), l, node)
StoreTree(h, node) ==
  IF node = None THEN Allocated(h, 0)
  ELSE StoreTree_l(StoreTree(h, node.left), node)

\* The tree that hangs from the node id, read out of the heap.
RECURSIVE Load(_, _)
Load(h, id) ==
  IF id = 0 THEN None
  ELSE [payload |-> h[id].payload, left |-> Load(h, h[id].left),
        right |-> Load(h, h[id].right), value |-> h[id].value]

\* The ids of the nodes that hang from the node id.
RECURSIVE Reach(_, _)
Reach(h, id) ==
  IF id = 0 THEN {}
  ELSE {id} \cup Reach(h, h[id].left) \cup Reach(h, h[id].right)

\* What a method that walks the tree from the node id and assigns to
\* node.payload and node.value leaves in the heap: children before their
\* parent, as EvalTreeNode.evaluate assigns.
RECURSIVE WriteBack(_, _, _)
WriteBack_r(hr, id, node) ==
  [hr EXCEPT ![id].payload = node.payload, ![id].value = node.value]
WriteBack_l(hl, id, node) ==
  WriteBack_r(WriteBack(hl, hl[id].right, node.right), id, node)
WriteBack(h, id, node) ==
  IF id = 0 THEN h
  ELSE WriteBack_l(WriteBack(h, h[id].left, node.left), id, node)

\* copy.deepcopy of the node id: memo maps the nodes copied so far to their
\* copies, so a node that is reached twice is copied once.
Copied(h, memo, id) == [heap |-> h, memo |-> memo, id |-> id]

RECURSIVE DeepCopy(_, _, _)
DeepCopy_r(r, l, id) ==
  Copied(Append(r.heap, HeapNode(r.heap[id].payload, l.id, r.id, r.heap[id].value)),
         r.memo @@ (id :> (Len(r.heap) + 1)),
         Len(r.heap) + 1)
DeepCopy_l(l, id) == DeepCopy_r(DeepCopy(l.heap, l.memo, l.heap[id].right), l, id)
DeepCopy(h, memo, id) ==
  IF id = 0 THEN Copied(h, memo, 0)
  ELSE IF id \in DOMAIN memo THEN Copied(h, memo, memo[id])
  ELSE DeepCopy_l(DeepCopy(h, memo, h[id].left), id)

\* EvalTree.copy(): the root of the copy
copy(h, self) == DeepCopy(h, <<>>, self)

\* __concat that hangs the operands themselves under the new root.
concat_Shared(h, operation, self, other) ==
  Allocated(Append(h, HeapNode(OpTok(operation), self, other, None)), Len(h) + 1)

\* EvalTree.__concat: copies of both operands under a new root
concat_other(oth, new, operation) ==
  Allocated(Append(oth.heap, HeapNode(OpTok(operation), new.id, oth.id, None)),
            Len(oth.heap) + 1)
concat_new(new, operation, other) ==
  concat_other(copy(new.heap, other), new, operation)
concat(h, operation, self, other) ==
  concat_new(copy(h, self), operation, other)

\* EvalTree.__in_place_concat: the operands themselves under a new root
in_place_concat(h, operation, self, other) ==
  Allocated(Append(h, HeapNode(OpTok(operation), self, other, None)), Len(h) + 1)

\* What the two trees a and b are built from.
HeapSources ==
  {StrSrc(<<"1", "d", "2">>), IntTok(2), None}
TreeNames == {"a", "b"}

\* a = EvalTree(source.a); b = EvalTree(source.b)
InitHeap ==
  /\ source \in {[k |-> "pair", a |-> x, b |-> y] : x, y \in HeapSources}
  /\ pc = "built"
  /\ st = "" /\ pos = 0 /\ toks = <<>>
  /\ raised = NoErr
  /\ tree = None
  /\ aux = NoAux
  /\ applied = 0
  /\ \E sa \in {StoreTree(<<>>, EvalTreeInit(source.a).root)} :
       \E sb \in {StoreTree(sa.heap, EvalTreeInit(source.b).root)} :
         /\ heap = sb.heap
         /\ roots = [a |-> sa.id, b |-> sb.id, r |-> 0, made |-> "none"]
  /\ rolled = None

\* a += b
InPlaceAdd ==
  /\ pc = "built"
  /\ \E c \in {in_place_concat(heap, "+", roots.a, roots.b)} :
       /\ heap' = c.heap
       /\ roots' = [roots EXCEPT !.a = c.id]
  /\ pc' = "joined"
  /\ aux' = [op |-> "in_place", on |-> "a"]
  /\ UNCHANGED <<source, st, pos, toks, raised, tree, applied, rolled>>

\* r = a + y or r = a - y, for y one of a and b
ConcatTrees ==
  /\ pc \in {"built", "joined"}
  /\ \E code \in {"+", "-"}, x \in {"a"}, y \in TreeNames :
       \E c \in {concat(heap, code, roots[x], roots[y])} :
         /\ heap' = c.heap
         /\ roots' = [roots EXCEPT !.r = c.id, !.made = code]
         /\ aux' = [op |-> "concat", on |-> "r", left |-> x, right |-> y]
  /\ pc' = "made"
  /\ UNCHANGED <<source, st, pos, toks, raised, tree, applied, rolled>>

\* r = x.copy()
CopyTree ==
  /\ pc \in {"built", "joined"}
  /\ \E x \in TreeNames :
       \E c \in {copy(heap, roots[x])} :
         /\ heap' = c.heap
         /\ roots' = [roots EXCEPT !.r = c.id, !.made = "copy"]
         /\ aux' = [op |-> "copy", on |-> "r", left |-> x, right |-> x]
  /\ pc' = "made"
  /\ UNCHANGED <<source, st, pos, toks, raised, tree, applied, rolled>>

\* x.evaluate() for x one of a, b and, once it is made, r
HeapEvaluate ==
  /\ \E x \in TreeNames \cup (IF pc = "made" THEN {"r"} ELSE {}), rng \in Forced :
       \E e \in {evaluate(Load(heap, roots[x]), rng)} :
         /\ heap' = WriteBack(heap, roots[x], e.root)
         /\ raised' = e.err
         /\ aux' = [op |-> "evaluate", on |-> x, v |-> e.v]
  /\ UNCHANGED <<source, pc, st, pos, toks, tree, applied, roots, rolled>>

\* r.averageify(), r.critify(), r.maxify()
HeapTransform ==
  /\ pc = "made"
  /\ \E mode \in Modes \ {"NORMAL"} :
       \E m \in {ApplyMode(Load(heap, roots.r), mode)} :
         /\ heap' = IF m.err = NoErr THEN WriteBack(heap, roots.r, m.root) ELSE heap
         /\ raised' = m.err
         /\ aux' = [op |-> "transform", on |-> "r", mode |-> mode]
  /\ UNCHANGED <<source, pc, st, pos, toks, tree, applied, roots, rolled>>

NextHeap == InPlaceAdd \/ ConcatTrees \/ CopyTree \/ HeapEvaluate \/ HeapTransform

SpecHeap == InitHeap /\ [][NextHeap]_vars

----------------------------------------------------------------------------
(* Properties of the tree builder.                                         *)

Leaf(x) == EvalTreeNode(x, None, None)
Node(code, l, r) == EvalTreeNode(OpTok(code), l, r)

\* The tree without the values that evaluation caches in it.
RECURSIVE Bare(_)
Bare(node) ==
  IF node = None THEN None
  ELSE EvalTreeNode(node.payload, Bare(node.left), Bare(node.right))

\* A reduces before B is pushed, read off the operator table.
ReducesFirst(A, B) ==
  \/ OPERATORS[A].precedence > OPERATORS[B].precedence
  \/ /\ OPERATORS[A].precedence = OPERATORS[B].precedence
     /\ OPERATORS[A].associativity = LEFT

NestedLeft(a, A, b, B, c) == Node(B, Node(A, Leaf(a), Leaf(b)), Leaf(c))
NestedRight(a, A, b, B, c) == Node(A, Leaf(a), Node(B, Leaf(b), Leaf(c)))

Chars3p4m5 == <<"3", "+", "4", "-", "5">>
Chars3e2e4 == <<"3", "^", "2", "^", "4">>
Chars2d6 == <<"2", "d", "6", "+", "5", "*", "2", "^", "2">>

\* C1: a token list 'a A b B c' of three values and two binary operators is
\* built as B(A(a,b),c) when A has the higher precedence, or the same
\* precedence and is left-associative, and as A(a,B(b,c)) otherwise; 3+4-5
\* nests to the left, 3^2^4 to the right, 2d6+5*2^2 is (2d6)+(5*(2^2)).
C1_PrecedenceNesting ==
  /\ (pc = "built" /\ source.k = "list" /\ source.tokens \in Infix) =>
       LET t == source.tokens
       IN Bare(tree) = IF ReducesFirst(t[2].code, t[4].code)
                         THEN NestedLeft(t[1], t[2].code, t[3], t[4].code, t[5])
                       ELSE NestedRight(t[1], t[2].code, t[3], t[4].code, t[5])
  /\ (pc = "built" /\ source = StrSrc(Chars3p4m5)) =>
       Bare(tree) = NestedLeft(IntTok(3), "+", IntTok(4), "-", IntTok(5))
  /\ (pc = "built" /\ source = StrSrc(Chars3e2e4)) =>
       Bare(tree) = NestedRight(IntTok(3), "^", IntTok(2), "^", IntTok(4))
  /\ (pc = "built" /\ source = StrSrc(Chars2d6)) =>
       Bare(tree) = Node("+", Node("d", Leaf(IntTok(2)), Leaf(IntTok(6))),
                          Node("*", Leaf(IntTok(5)),
                               Node("^", Leaf(IntTok(2)), Leaf(IntTok(2)))))

\* a right-associative tie that was built nested to the right
C1_Witness ==
  /\ pc = "built"
  /\ source = ListSrc(<<IntTok(2), OpTok("^"), IntTok(1), OpTok("^"), IntTok(2)>>)
  /\ Bare(tree) = NestedRight(IntTok(2), "^", IntTok(1), "^", IntTok(2))

\* Token j was collected at a '+' or '-' of the string.
SignChar(j) == source.chars[aux.at[j] + 1]
IsSign(j) == SignChar(j) \in {"+", "-"}
UnarySign(char) == IF char = "+" THEN OpTok("p") ELSE OpTok("m")

\* Token j is the first one, or follows an operator or a '('.
AfterStartOperatorOrParen(j) ==
  \/ j = 1
  \/ IsOperator(toks[j - 1])
  \/ toks[j - 1] = StrTok("(")

\* Token j is the first one, or follows a '(' or an operator that takes an
\* operand on its right and is not a dice operator.
AfterStartPrefixOrParen(j) ==
  \/ j = 1
  \/ toks[j - 1] = StrTok("(")
  \/ /\ IsOperator(toks[j - 1])
     /\ Arity(toks[j - 1]) \in {RIGHT, BOTH}
     /\ toks[j - 1].code \notin DieCodes

\* The offset behind the dice operator that starts at offset i: 'd' takes
\* the next character along when the two make a code of Die.codes.
DieCodeEnd(expr, i) ==
  IF i + 1 < Len(expr) /\ ("d" \o CharAt(expr, i + 1)) \in DieCodes THEN i + 2
  ELSE i + 1

\* The offset of the character that Die.run hands to next_state once the
\* code is aggregated: the one behind the code, or the one behind the
\* whitespace that follows the code.
BehindDie(expr, i) ==
  IF DieCodeEnd(expr, i) < Len(expr) /\ CharAt(expr, DieCodeEnd(expr, i)) \in Whitespace
    THEN slurp_whitespace(expr, DieCodeEnd(expr, i))
  ELSE DieCodeEnd(expr, i)

\* The scan is about to run the Die state on a dice operator that a '+' or
\* '-' follows, directly or after whitespace.
SignAfterDie ==
  /\ pc = "scan"
  /\ st = "Die"
  /\ BehindDie(source.chars, pos) < Len(source.chars)
  /\ CharAt(source.chars, BehindDie(source.chars, pos)) \in {"+", "-"}

\* The step raises the ParseError of an illegal character at the sign, and
\* emits neither the dice operator nor the sign.
SignRejected ==
  /\ pc' = "failed"
  /\ raised' = "ParseError"
  /\ aux'.detail.msg = CharAt(source.chars, BehindDie(source.chars, pos))
                         \o " is not allowed in this position."
  /\ aux'.detail.offset = BehindDie(source.chars, pos)
  /\ toks' = toks
  /\ st' = st

\* The scan stopped in the Die state at a '+' or '-'.
StoppedAtSignAfterDie ==
  /\ pc = "failed"
  /\ st = "Die"
  /\ aux.detail.offset < Len(source.chars)
  /\ CharAt(source.chars, aux.detail.offset) \in {"+", "-"}

\* Every '+' or '-' that was emitted is the unary sign exactly in a prefix
\* context, and none was emitted right after a dice operator.
SignsByContext ==
  pc \in {"scan", "done"} =>
    \A j \in 1..Len(toks) :
      IsSign(j) =>
        /\ toks[j] = IF AfterStartPrefixOrParen(j)
                        THEN UnarySign(SignChar(j))
                      ELSE OpTok(SignChar(j))
        /\ j > 1 /\ IsOperator(toks[j - 1]) => toks[j - 1].code \notin DieCodes

\* A scan that stopped in the Die state at a sign stopped with the
\* ParseError of an illegal character.
StoppedWithParseError ==
  StoppedAtSignAfterDie =>
    /\ raised = "ParseError"
    /\ aux.detail.msg = CharAt(source.chars, aux.detail.offset)
                          \o " is not allowed in this position."

\* C2 as stated: a '+' or '-' is emitted as the unary sign (p, m) exactly
\* when it is at the start of the input, right after another operator or
\* right after '(', and as the binary operator in every other position.
C2_SignAfterAnyOperator ==
  pc \in {"scan", "done"} =>
    \A j \in 1..Len(toks) :
      IsSign(j) => toks[j] = IF AfterStartOperatorOrParen(j)
                               THEN UnarySign(SignChar(j))
                             ELSE OpTok(SignChar(j))

\* C2, amended: a '+' or '-' is emitted as the unary sign (p, m) exactly
\* when it is at the start of the input, right after '(' or right after an
\* operator that is neither the postfix '!' nor a dice operator; after '!',
\* a value or ')' it is the binary operator, and after a dice operator it
\* is rejected with a ParseError.
C2_SignAfterPrefixContext ==
  /\ [](SignsByContext /\ StoppedWithParseError)
  /\ [][SignAfterDie => SignRejected]_vars

\* '-1d-' was scanned up to its second sign: the sign at the start was
\* emitted as the unary 'm', the one after the dice operator was rejected
\* with the ParseError, and no token was emitted for 'd' or for the sign
C2_Witness ==
  /\ pc = "failed"
  /\ st = "Die"
  /\ source = StrSrc(<<"-", "1", "d", "-">>)
  /\ toks = <<OpTok("m"), IntTok(1)>>
  /\ raised = "ParseError"
  /\ aux.detail = ParseError("- is not allowed in this position.", 3)

\* basic('NdS', mode, modifiers) was called on the string of n dice of s sides.
RolledDice(n, s, mode) ==
  /\ pc = "new"
  /\ aux.op = "basic"
  /\ aux.mode = mode
  /\ source = StrSrc(<<ToString(n), "d", ToString(s)>>)

\* The log holds `count` draws and every one of them is k.
AllDrawsAre(k, count) ==
  /\ Len(aux.log) = count
  /\ \A i \in 1..count : aux.log[i] = IntTok(k)

\* The number returned is num/den more than the modifiers.
Returned(num, den) ==
  /\ raised = NoErr
  /\ IsNumber(aux.v)
  /\ Num(aux.v) * den = (num + den * Num(aux.modifiers)) * Den(aux.v)

Chars2d3h1 == <<"2", "d", "3", "h", "1">>

\* C3: with every draw forced to k, 'NdS' evaluates to N*k in normal mode,
\* to 2*N*k in critical mode (2N draws), to N*S in maximum mode and to
\* N*(S+1)/2 in average mode (no draws); a Roll at the root is returned
\* as the sum of the values it keeps, so 2d3h1 returns k.
C3_ForcedDiceSums ==
  /\ \A n \in 0..MaxDice, s \in 1..MaxSides :
       /\ RolledDice(n, s, "NORMAL") =>
            \E k \in 1..s : AllDrawsAre(k, n) /\ Returned(n * k, 1)
       /\ RolledDice(n, s, "CRIT") =>
            \E k \in 1..s : AllDrawsAre(k, 2 * n) /\ Returned(2 * n * k, 1)
       /\ RolledDice(n, s, "MAX") => aux.log = <<>> /\ Returned(n * s, 1)
       /\ RolledDice(n, s, "AVERAGE") => aux.log = <<>> /\ Returned(n * (s + 1), 2)
  /\ (pc = "new" /\ aux.op = "basic" /\ aux.mode = "NORMAL"
        /\ source = StrSrc(Chars2d3h1)) =>
       \E k \in 1..3 : AllDrawsAre(k, 2) /\ Returned(k, 1)

\* a critical 2d3 with every draw forced to 2 returned 8 from four draws
C3_Witness ==
  /\ RolledDice(2, 3, "CRIT")
  /\ aux.modifiers = IntTok(0)
  /\ AllDrawsAre(2, 4)
  /\ aux.v = IntTok(8)

\* dm > dc > da > d
DieRank(code) ==
  CASE code = "da" -> 1 [] code = "dc" -> 2 [] code = "dm" -> 3 [] OTHER -> 0
DieOfRank(r) ==
  CASE r = 1 -> "da" [] r = 2 -> "dc" [] r = 3 -> "dm" [] OTHER -> "d"

\* The tree with every dice operator raised to rank r at least, and
\* nothing else changed.
RECURSIVE Raised(_, _)
Raised(node, r) ==
  IF node = None THEN None
  ELSE EvalTreeNode(
         IF IsOperator(node.payload) /\ node.payload.code \in DieCodes
           THEN OpTok(DieOfRank(Higher(DieRank(node.payload.code), r)))
         ELSE node.payload,
         Raised(node.left, r), Raised(node.right, r))

\* C4: after any sequence of critify / averageify / maxify calls every
\* dice operator of the tree is the variant of the highest-ranked mode
\* applied so far or present from the start (dm > dc > da > d), and the
\* shape of the tree and every other payload are as they were compiled.
C4_TransformsKeepHighestRank ==
  pc = "built" =>
    Bare(tree) = Raised(Bare(compile(source, IntTok(0)).root), applied)

\* 1da2+1d2 after critify was the last transform: both dice are dc
C4_Witness ==
  /\ pc = "built"
  /\ source = StrSrc(<<"1", "d", "a", "2", "+", "1", "d", "2">>)
  /\ applied = 2
  /\ aux = [op |-> "transform", mode |-> "CRIT"]
  /\ Bare(tree) = Node("+", Node("dc", Leaf(IntTok(1)), Leaf(IntTok(2))),
                          Node("dc", Leaf(IntTok(1)), Leaf(IntTok(2))))

\* The construction failed inside the tree builder, not in the tokenizer.
ReductionFailed ==
  /\ pc = "failed"
  /\ aux.op = "EvalTree"
  /\ aux.detail.k = "cause"

\* C5: when a reduction fails while the tree is built (a ')' without its
\* '(' on the operator stack, an operator whose operands are missing), the
\* construction fails with a ParseError, which is a RollError.
C5_ReductionFailureIsParseError ==
  ReductionFailed => IsSubclass(raised, "ParseError") /\ IsSubclass(raised, "RollError")

\* tree.evaluate() ended in an exception of the program.
EvaluationFailed ==
  /\ pc = "built"
  /\ aux.op = "evaluate"
  /\ aux.cause # NoErr
  /\ aux.cause \notin Pseudo

\* C6: whatever exception an operator raises while the tree is evaluated
\* (a keep count that is no integer, a division by zero, the factorial of
\* a negative number, a rejected reroll threshold), evaluate() raises an
\* EvaluationError and never the underlying exception.
C6_EvaluationErrorWraps ==
  EvaluationFailed => raised = "EvaluationError"

\* 1/0 was evaluated: ZeroDivisionError inside, EvaluationError outside
C6_Witness ==
  /\ EvaluationFailed
  /\ source = StrSrc(<<"1", "/", "0">>)
  /\ aux.cause = "ZeroDivisionError"
  /\ raised = "EvaluationError"

\* The nodes of the trees a and b in the heap h.
Originals(h, rs) == Reach(h, rs.a) \cup Reach(h, rs.b)

\* C7: the tree r returned by a + b, a - b or copy() shares no node with a
\* or b, and evaluating or transforming r leaves every node of a and b as
\* it was: the same payload and the same cached value, none if there was
\* none.
C7_ResultSharesNoNode ==
  [][/\ pc' = "made" => Reach(heap', roots'.r) \cap Originals(heap', roots') = {}
     /\ (pc = "made" /\ aux'.on = "r" /\ aux'.op \in {"evaluate", "transform"}) =>
          \A n \in Originals(heap, roots) : heap'[n] = heap[n]]_vars

\* r = a + b was evaluated while a = EvalTree('1d2') never was: r holds a
\* value and a holds none
C7_Witness ==
  /\ pc = "made"
  /\ roots.made = "+"
  /\ source.a = StrSrc(<<"1", "d", "2">>)
  /\ aux.op = "evaluate" /\ aux.on = "r"
  /\ heap[roots.r].value # None
  /\ heap[heap[roots.r].left].value # None
  /\ heap[roots.a].value = None

\* C8: basic(tree, mode) and verbose(tree, mode) on a compiled tree leave
\* the tree as it was: every payload, the dice operators included, is the
\* same after the call as before it.
C8_CompiledTreeUnchanged ==
  [][(pc = "built" /\ aux'.op \in {"basic", "verbose"}) => Bare(tree') = Bare(tree)]_vars

\* The number of '(' less the number of ')' in chars[a..b].
ParenDepth(chars, a, b) ==
  Len(SelectChars(SubSeq(chars, a, b), {"("})) - Len(SelectChars(SubSeq(chars, a, b), {")"}))

\* The position of the ')' that closes the '(' at position i.
Closing(chars, i) ==
  CHOOSE j \in (i + 1)..Len(chars) :
    /\ ParenDepth(chars, i, j) = 0
    /\ \A h \in i..(j - 1) : ParenDepth(chars, i, h) > 0

Without(chars, i, j) ==
  SubSeq(chars, 1, i - 1) \o SubSeq(chars, i + 1, j - 1) \o SubSeq(chars, j + 1, Len(chars))

\* The pair of parentheses opened at i can be left out: the expression
\* without it builds the same tree.
Redundant(chars, i) ==
  LET pruned == EvalTreeInit(StrSrc(Without(chars, i, Closing(chars, i))))
  IN /\ pruned.err = NoErr
     /\ Bare(pruned.root) = Bare(EvalTreeInit(StrSrc(chars)).root)

NoRedundantParens(chars) ==
  \A i \in 1..Len(chars) : chars[i] = "(" => ~Redundant(chars, i)

\* The expression holds a token at least, and every operator of it is
\* rendered as itself.
BelowOpaque(chars) ==
  /\ tokens(chars).tokens # <<>>
  /\ \A i \in 1..Len(tokens(chars).tokens) :
       IsOperator(tokens(chars).tokens[i]) => Prec(tokens(chars).tokens[i]) < OpaquePrecedence

\* The expression as typed, without its whitespace.
Typed(chars) == JoinChars(SelectSeq(chars, LAMBDA ch : ~isspace(ch)), 1)

\* verbose_result() rendered the tree of a string.
Rendered ==
  /\ pc = "built"
  /\ aux.op = "verbose_result"
  /\ raised = NoErr
  /\ source.k = "str"
  /\ tree # None

Chars1p2t4 == <<"1", "+", "(", "2", "*", "4", ")">>
Chars2t4p8 == <<"2", "*", "(", "4", "+", "8", ")">>

\* C9: for a valid expression without redundant parentheses whose
\* operators are all below the opaque precedence 6, verbose_result() is
\* the expression as typed, with exactly its parentheses, then ' = ' and
\* the final value; redundant parentheses are dropped: 1+(2*4) renders as
\* '1+2*4 = 9' and 2*(4+8) as '2*(4+8) = 24'.
C9_VerboseKeepsParentheses ==
  /\ (Rendered /\ BelowOpaque(source.chars) /\ NoRedundantParens(source.chars)) =>
       aux.text = Typed(source.chars) \o " = " \o Str(Final(tree.value))
  /\ (Rendered /\ source = StrSrc(Chars1p2t4)) => aux.text = "1+2*4 = 9"
  /\ (Rendered /\ source = StrSrc(Chars2t4p8)) => aux.text = "2*(4+8) = 24"

\* C10: the payloads that in_order() yields build a tree that equals the
\* tree they were read from, node for node in pre-order.
C10_InOrderRoundTrip ==
  (pc = "built" /\ aux.op = "in_order") =>
     /\ raised = NoErr
     /\ trees_equal(tree, aux.again) = BoolVal(TRUE)

----------------------------------------------------------------------------
(* The tokenizer's errors and its tokens at the edges.                     *)

\* The parenthesis at offset i of chars (counted from 0) has a partner: a
\* '(' is closed by a later ')' with balanced text in between, a ')' closes
\* an earlier '('.
HasPartner(chars, i) ==
  IF chars[i + 1] = "("
    THEN \E j \in (i + 2)..Len(chars) :
           /\ ParenDepth(chars, i + 1, j) = 0
           /\ \A h \in (i + 1)..(j - 1) : ParenDepth(chars, i + 1, h) > 0
  ELSE \E j \in 1..i :
         /\ ParenDepth(chars, j, i + 1) = 0
         /\ \A h \in (j + 1)..(i + 1) : ParenDepth(chars, h, i + 1) < 0

\* tokens() stopped with a ParseError of this message that points at a
\* character ch without a partner.
StoppedAtLonely(msg, ch) ==
  /\ pc = "failed"
  /\ raised = "ParseError"
  /\ aux.detail.msg = msg
  /\ aux.detail.offset < Len(source.chars)
  /\ CharAt(source.chars, aux.detail.offset) = ch
  /\ ~HasPartner(source.chars, aux.detail.offset)

\* C11: a source with more '(' than ')' raises the 'Unclosed parenthesis'
\* ParseError, one with more ')' than '(' the 'Unopened parenthesis'
\* ParseError, and the offset of the error is the index of a parenthesis
\* that has no partner.
C11_ParenErrorAtUnmatched ==
  pc # "new" =>
    /\ Count(source.chars, "(") > Count(source.chars, ")") =>
         StoppedAtLonely("Unclosed parenthesis detected.", "(")
    /\ Count(source.chars, ")") > Count(source.chars, "(") =>
         StoppedAtLonely("Unopened parenthesis detected.", ")")

\* The source holds a character that State._recognized does not.
HasUnrecognized(chars) == \E i \in 1..Len(chars) : chars[i] \notin recognized

\* The same, for a character that str.isspace() does not take for a space.
HasUnrecognizedInk(chars) ==
  \E i \in 1..Len(chars) : chars[i] \notin recognized /\ ~isspace(chars[i])

\* C12: tokens() never returns a token list for a source that holds a
\* character outside the recognised alphabet; it raises ParseError wherever
\* the character is and whatever state reaches it, after skipped whitespace
\* and inside a side list too.
C12_UnrecognizedAlwaysRaises ==
  HasUnrecognized(source.chars) =>
    /\ pc # "done"
    /\ pc = "failed" => raised = "ParseError"

\* What holds of the code: the unrecognised characters that are not spaces
\* of str.isspace() are always rejected.
UnrecognizedInkRaises ==
  HasUnrecognizedInk(source.chars) =>
    /\ pc # "done"
    /\ pc = "failed" => raised = "ParseError"

\* Token j is a dice operator.
IsDie(j) == IsOperator(toks[j]) /\ toks[j].code \in DieCodes

FudgeSides == TupleTok(<<IntTok(-1), IntTok(0), IntTok(1)>>)

\* The '[' or 'F' at offset i was emitted as the float tuple that follows a
\* dice operator.
EmittedAsSides(i) ==
  \E j \in 2..Len(toks) :
    /\ aux.at[j] = i
    /\ IsTuple(toks[j])
    /\ IsDie(j - 1)
    /\ CharAt(source.chars, i) = "F" => toks[j] = FudgeSides

\* C13: a float tuple (a side list '[...]' or the fudge die 'F', which is
\* (-1, 0, 1)) is emitted only as the token right after a dice operator;
\* a '[' or 'F' met in any other position, right after a '(' that follows a
\* dice operator included, raises ParseError.
C13_SidesOnlyAfterDie ==
  /\ pc \in {"scan", "done"} =>
       \A j \in 1..Len(toks) : IsTuple(toks[j]) => j > 1 /\ IsDie(j - 1)
  /\ pc = "done" =>
       \A i \in 0..(Len(source.chars) - 1) :
         CharAt(source.chars, i) \in {"[", "F"} => EmittedAsSides(i)
  /\ pc = "failed" => raised = "ParseError"

\* '1d[1,2]' was scanned to the end: the side list is the third token
C13_Witness ==
  /\ pc = "done"
  /\ source = StrSrc(<<"1", "d", "[", "1", ",", "2", "]">>)
  /\ Len(toks) = 3
  /\ IsDie(2)
  /\ IsTuple(toks[3])
  /\ Len(toks[3].sides) = 2

\* The state classes that collect a run of digits or of operator characters.
RunClasses == {"Integer", "Binary", "UnaryPrefix", "UnarySuffix", "Die"}

\* What is left of the source from the position of the current state on.
Rest == SubSeq(source.chars, pos + 1, Len(source.chars))

\* The length of the run that Rest starts with: up to its first space.
InkLen(rest) ==
  CHOOSE n \in 0..Len(rest) :
    /\ \A h \in 1..n : ~isspace(rest[h])
    /\ n < Len(rest) => isspace(rest[n + 1])

PendingRun == SubSeq(Rest, 1, InkLen(Rest))

\* Only whitespace follows the pending run.
BlankAfterRun ==
  /\ \A h \in (InkLen(Rest) + 1)..Len(Rest) : isspace(Rest[h])
  /\ InkLen(Rest) < Len(Rest) => Rest[InkLen(Rest) + 1] \in Whitespace

\* The run is a whole token of the class.
IsRunOf(cls, text) ==
  CASE cls = "Integer" -> \A h \in 1..Len(text) : text[h] \in Digits
    [] cls = "Binary" -> JoinChars(text, 1) \in BinaryCodes
    [] cls = "Die" -> JoinChars(text, 1) \in DieCodes
    [] cls = "UnaryPrefix" -> text \in {<<"+">>, <<"-">>}
    [] cls = "UnarySuffix" -> text = <<"!">>
    [] OTHER -> FALSE

\* The token that the run stands for.
RunToken(cls, text) ==
  CASE cls = "Integer" -> ParseInt(text)
    [] cls = "UnaryPrefix" -> UnarySign(text[1])
    [] OTHER -> OpTok(JoinChars(text, 1))

\* The input ends while the run of the current state is pending.
EndsInRun ==
  /\ pc = "scan"
  /\ st \in RunClasses
  /\ PendingRun # <<>>
  /\ IsRunOf(st, PendingRun)
  /\ BlankAfterRun

\* The step emits the pending run as the last token and reaches the end.
RunFlushed ==
  /\ pc' = "scan"
  /\ st' = "InputEnd"
  /\ toks' = Append(toks, RunToken(st, PendingRun))

\* The step raises the ParseError for an expression that ends too early.
RunRejected ==
  /\ pc' = "failed"
  /\ raised' = "ParseError"
  /\ aux'.detail.msg = "Unexpected end of expression."
  /\ aux'.detail.offset = Len(source.chars)
  /\ toks' = toks

\* C14 as stated: when the input ends while a number run or an operator
\* run is pending, the run is emitted as the last token of the sequence.
C14_PendingRunFlushed ==
  [][EndsInRun => RunFlushed]_vars

\* C14, amended: when the input ends while a number run or the postfix '!'
\* is pending, the run is emitted as the last token; when a binary
\* operator, a sign or a dice operator is pending, ParseError 'Unexpected
\* end of expression.' is raised at the end of the source and no token
\* is emitted for the run.
C14_PendingValueFlushed ==
  [][EndsInRun => IF st \in {"Integer", "UnarySuffix"} THEN RunFlushed
                  ELSE RunRejected]_vars

\* '11' was scanned to the end: the number run is the one token
C14_Witness ==
  /\ pc = "done"
  /\ source = StrSrc(<<"1", "1">>)
  /\ toks = <<IntTok(11)>>

----------------------------------------------------------------------------
(* The shape of the trees.                                                 *)

\* The two stacks of __from_tokens when its last loop has ended.
FinalStacks(list) == Drain(ConsumeAll(Stacks(<<>>, <<>>, NoErr), list, 1))

\* EvalTree(tokens) was called on a token list.
BuiltFromList ==
  /\ pc \in {"built", "failed"}
  /\ aux.op = "EvalTree"
  /\ source.k = "list"

\* C15: the builder accepts a token list only if the output stack holds
\* exactly one subtree once the tokens are consumed and the operators
\* drained, and that subtree is the root; a list that leaves more than one
\* subtree is rejected with an error; the empty list gives the single leaf 0.
C15_ExactlyOneSubtree ==
  BuiltFromList =>
    /\ (pc = "built" /\ source.tokens # <<>>) =>
         /\ Len(FinalStacks(source.tokens).values) = 1
         /\ tree = FinalStacks(source.tokens).values[1]
    /\ (pc = "built" /\ source.tokens = <<>>) =>
         tree = EvalTreeNode(IntTok(0), None, None)
    /\ Len(FinalStacks(source.tokens).values) > 1 =>
         pc = "failed" /\ raised # NoErr

----------------------------------------------------------------------------
(* One tree through its life: built from text, a number or a token list,   *)
(* then transformed, copied, joined with other trees and given modifiers   *)
(* in any order.                                                           *)

\* At most MaxJoins combinations and modifier attachments per tree.
MaxJoins == 2

\* What the tree is built from.
ShapeTokens == {IntTok(1), OpTok("m"), OpTok("!"), OpTok("d"), OpTok("+")}
ShapeSources ==
  {StrSrc(x) : x \in Samples} \cup Values
  \cup {ListSrc(l) : l \in ListsUpTo(ShapeTokens, MaxTokens)}

\* What the other operand of + - += -= is built from.
OperandSources ==
  {StrSrc(<<"1", "d", "2">>), ListSrc(<<OpTok("m"), IntTok(1), OpTok("!")>>)}

InitShape ==
  /\ source \in ShapeSources
  /\ pc = "new"
  /\ st = "" /\ pos = 0 /\ toks = <<>>
  /\ raised = NoErr
  /\ tree = None
  /\ aux = [op |-> "none", joins |-> 0]
  /\ applied = 0
  /\ heap = <<>> /\ roots = NoRoots
  /\ rolled = None

\* tree = EvalTree(source)
ShapeBuild ==
  /\ pc = "new"
  /\ \E t \in {EvalTreeInit(source)} :
        /\ pc' = IF t.err = NoErr THEN "built" ELSE "failed"
        /\ tree' = t.root
        /\ raised' = t.err
  /\ aux' = [op |-> "EvalTree", joins |-> 0]
  /\ UNCHANGED <<source, st, pos, toks, applied, heap, roots, rolled>>

\* tree.averageify(), tree.critify(), tree.maxify()
ShapeTransform ==
  /\ pc = "built"
  /\ \E mode \in Modes \ {"NORMAL"} :
       \E m \in {ApplyMode(tree, mode)} :
         /\ tree' = m.root
         /\ raised' = m.err
         /\ applied' = IF m.err = NoErr THEN Higher(applied, Rank(mode)) ELSE applied
         /\ aux' = [aux EXCEPT !.op = "transform"]
  /\ UNCHANGED <<source, pc, st, pos, toks, heap, roots, rolled>>

\* tree = tree.copy()
ShapeCopy ==
  /\ pc = "built"
  /\ aux.op # "copy"
  /\ \E s \in {StoreTree(<<>>, tree)} :
       \E c \in {copy(s.heap, s.id)} :
         tree' = Load(c.heap, c.id)
  /\ aux' = [aux EXCEPT !.op = "copy"]
  /\ UNCHANGED <<source, pc, st, pos, toks, raised, applied, heap, roots, rolled>>

\* tree = tree + EvalTree(o), tree = tree - EvalTree(o)
ShapeConcat ==
  /\ pc = "built"
  /\ aux.joins < MaxJoins
  /\ \E o \in OperandSources, code \in {"+", "-"} :
       \E s \in {StoreTree(<<>>, tree)} :
         \E t \in {StoreTree(s.heap, EvalTreeInit(o).root)} :
           \E c \in {concat(t.heap, code, s.id, t.id)} :
             tree' = Load(c.heap, c.id)
  /\ aux' = [op |-> "concat", joins |-> aux.joins + 1]
  /\ UNCHANGED <<source, pc, st, pos, toks, raised, applied, heap, roots, rolled>>

\* tree += EvalTree(o), tree -= EvalTree(o), and tree += tree
ShapeInPlace ==
  /\ pc = "built"
  /\ aux.joins < MaxJoins
  /\ \E o \in OperandSources \cup {TreeSrc(tree)}, code \in {"+", "-"} :
       \E s \in {StoreTree(<<>>, tree)} :
         \E t \in {IF o.k = "tree" THEN s ELSE StoreTree(s.heap, EvalTreeInit(o).root)} :
           \E c \in {in_place_concat(t.heap, code, s.id, t.id)} :
             tree' = Load(c.heap, c.id)
  /\ aux' = [op |-> "in_place", joins |-> aux.joins + 1]
  /\ UNCHANGED <<source, pc, st, pos, toks, raised, applied, heap, roots, rolled>>

\* _add_modifiers(tree, modifiers) with modifiers that are not 0
ShapeModifiers ==
  /\ pc = "built"
  /\ aux.joins < MaxJoins
  /\ \E modifiers \in {IntTok(1)} :
       tree' = add_modifiers(tree, modifiers)
  /\ aux' = [op |-> "modifiers", joins |-> aux.joins + 1]
  /\ UNCHANGED <<source, pc, st, pos, toks, raised, applied, heap, roots, rolled>>

NextShape ==
  \/ ShapeBuild \/ ShapeTransform \/ ShapeCopy \/ ShapeConcat \/ ShapeInPlace
  \/ ShapeModifiers

SpecShape == InitShape /\ [][NextShape]_vars

\* A payload that is a value: a number or a tuple of sides.
IsConcrete(payload) == payload.k \in {"int", "float", "bool", "tuple", "roll"}

\* The node and every node below it has the children that its payload asks
\* for.
RECURSIVE Shaped(_)
Shaped(node) ==
  /\ is_leaf(node) <=> IsConcrete(node.payload)
  /\ IsOperator(node.payload) =>
       /\ node.left # None <=> HasLeft(Arity(node.payload))
       /\ node.right # None <=> HasRight(Arity(node.payload))
  /\ node.left # None => Shaped(node.left)
  /\ node.right # None => Shaped(node.right)

\* C16: in every tree built from text, a number or a token list and then
\* transformed, copied, combined with + - += -= and given modifiers in any
\* order, a node has no children exactly when its payload is a value, and
\* an operator node has a left child exactly when its arity includes LEFT
\* and a right child exactly when it includes RIGHT.
C16_ChildrenMatchArity ==
  (pc = "built" /\ tree # None) => Shaped(tree)

\* -1 built from text, joined in place with the tree of -(1!) and given the
\* modifier 1: nodes of arity RIGHT, LEFT and BOTH
C16_Witness ==
  /\ pc = "built"
  /\ aux.joins = 2
  /\ tree # None
  /\ tree.payload = OpTok("+")
  /\ tree.right.payload = IntTok(1)
  /\ tree.left.payload \in {OpTok("+"), OpTok("-")}
  /\ tree.left.right.payload = OpTok("m")
  /\ tree.left.right.right.payload = OpTok("!")

----------------------------------------------------------------------------
(* The Roll object (operators.py): rolled.self holds its rolls, discards   *)
(* and die, rolled.disableSorting the flag that sorting_disabled() sets.   *)
(* Indexes count from 0 and may be negative, as in Python.                 *)

\* A Roll of the model has at most MaxDiscards discards.
MaxDiscards == 2

Faces == {IntTok(n) : n \in 1..MaxSides}
FaceLists == ListsUpTo(Faces, MaxDice)
Keys == (0 - 1)..MaxDice

RollObject(self, flag) == [self |-> self, disableSorting |-> flag]
Done(obj, err) == [obj |-> obj, err |-> err]

\* The position (from 1) that the index key names in a list of len items,
\* or 0 when the index is out of range.
ListIndex(len, key) ==
  IF key < 0 THEN (IF key + len >= 0 THEN key + len + 1 ELSE 0)
  ELSE IF key < len THEN key + 1 ELSE 0

Removed(values, i) == SubSeq(values, 1, i - 1) \o SubSeq(values, i + 1, Len(values))

IsSorted(values) ==
  \A i \in 1..(Len(values) - 1) : NumLe(values[i], values[i + 1])

\* the rolls setter: `self.__rolls = val`, sorted unless sorting is disabled
rolls_setter(obj, val) ==
  Done(RollObject([obj.self EXCEPT !.rolls = IF obj.disableSorting THEN val ELSE Sort(val)],
                  obj.disableSorting),
       NoErr)

\* Roll.__setitem__
Roll_setitem(obj, key, value) ==
  IF ListIndex(Len(obj.self.rolls), key) = 0 THEN Done(obj, "IndexError")
  ELSE rolls_setter(obj, [obj.self.rolls EXCEPT ![ListIndex(Len(obj.self.rolls), key)] = value])

\* Roll.__delitem__
Roll_delitem(obj, key) ==
  IF ListIndex(Len(obj.self.rolls), key) = 0 THEN Done(obj, "IndexError")
  ELSE Done(RollObject([obj.self EXCEPT !.rolls = Removed(@, ListIndex(Len(@), key))],
                       obj.disableSorting),
            NoErr)

\* Roll.discard(index) for an int
Roll_discard(obj, key) ==
  IF ListIndex(Len(obj.self.rolls), key) = 0
    THEN Done(obj, WrapExceptionsWith("ArgumentValueError", "IndexError", "IndexError"))
  ELSE Done(RollObject([obj.self EXCEPT
                          !.discards = Append(@, obj.self.rolls[ListIndex(Len(obj.self.rolls), key)]),
                          !.rolls = Removed(@, ListIndex(Len(@), key))],
                       obj.disableSorting),
            NoErr)

\* Roll.discard(slice(a, b)) for 0 <= a <= b <= len
Roll_discard_slice(obj, a, b) ==
  Done(RollObject(DiscardSlice(obj.self, a + 1, b), obj.disableSorting), NoErr)

\* Roll.replace(index, new) for an int: `self.rolls[index] = new` assigns
\* to the list itself
Roll_replace(obj, key, new) ==
  IF ListIndex(Len(obj.self.rolls), key) = 0
    THEN Done(obj, WrapExceptionsWith("ArgumentValueError", "IndexError", "IndexError"))
  ELSE Done(RollObject(Replace(obj.self, ListIndex(Len(obj.self.rolls), key), new),
                       obj.disableSorting),
            NoErr)

\* Roll.replace(slice(a, b), new) for 0 <= a <= b <= len: the slice is in
\* the discards before the lengths are compared
Roll_replace_slice(obj, a, b, new) ==
  IF b - a # Len(new)
    THEN Done(RollObject([obj.self EXCEPT !.discards = @ \o SubSeq(obj.self.rolls, a + 1, b)],
                         obj.disableSorting),
              "ArgumentValueError")
  ELSE Done(RollObject([obj.self EXCEPT
                          !.discards = @ \o SubSeq(obj.self.rolls, a + 1, b),
                          !.rolls = SubSeq(@, 1, a) \o new \o SubSeq(@, b + 1, Len(@))],
                       obj.disableSorting),
            NoErr)

\* the finally clause of sorting_disabled
sorting_enabled(obj) == RollObject(Resorted(obj.self), FALSE)

\* A call made on the Roll: what it leaves of the object and the exception
\* that reaches the caller.  An exception raised inside a sorting_disabled
\* block changes nothing else: the block is left in a step of its own.
Called(name, d) ==
  /\ Len(d.obj.self.discards) <= MaxDiscards
  /\ rolled' = d.obj
  /\ raised' = d.err
  /\ aux' = [op |-> name]
  /\ UNCHANGED <<source, pc, st, pos, toks, tree, applied, heap, roots>>

\* rolled = Roll(rolls, die) for a die of source sides
InitRollObj ==
  /\ source = IntTok(MaxSides)
  /\ pc = "roll"
  /\ st = "" /\ pos = 0 /\ toks = <<>>
  /\ raised = NoErr
  /\ tree = None
  /\ aux = NoAux
  /\ applied = 0
  /\ heap = <<>> /\ roots = NoRoots
  /\ rolled \in {RollObject(Roll(l, source), FALSE) : l \in FaceLists}

\* rolled.rolls = val
SetRolls ==
  /\ pc = "roll"
  /\ \E val \in FaceLists : Called("rolls", rolls_setter(rolled, val))

\* rolled[key] = value
SetItem ==
  /\ pc = "roll"
  /\ \E key \in Keys, value \in Faces : Called("setitem", Roll_setitem(rolled, key, value))

\* del rolled[key]
DelItem ==
  /\ pc = "roll"
  /\ \E key \in Keys : Called("delitem", Roll_delitem(rolled, key))

\* rolled.discard(key), rolled.discard(slice(a, b))
Discard ==
  /\ pc = "roll"
  /\ \/ \E key \in Keys : Called("discard", Roll_discard(rolled, key))
     \/ \E a \in 0..Len(rolled.self.rolls) : \E b \in a..Len(rolled.self.rolls) :
          Called("discard", Roll_discard_slice(rolled, a, b))

\* rolled.replace(key, new), rolled.replace(slice(a, b), new)
ReplaceRolls ==
  /\ pc = "roll"
  /\ \/ \E key \in Keys, new \in Faces : Called("replace", Roll_replace(rolled, key, new))
     \/ \E a \in 0..Len(rolled.self.rolls) : \E b \in a..Len(rolled.self.rolls) :
          \E new \in FaceLists : Called("replace", Roll_replace_slice(rolled, a, b, new))

\* with rolled.sorting_disabled():
EnterBlock ==
  /\ pc = "roll"
  /\ ~rolled.disableSorting
  /\ Called("enter", Done(RollObject(rolled.self, TRUE), NoErr))

\* the end of the with block
LeaveBlock ==
  /\ pc = "roll"
  /\ rolled.disableSorting
  /\ Called("leave", Done(sorting_enabled(rolled), NoErr))

\* the exception of the last call leaves the with block: the finally clause
\* runs and the exception goes on to the caller
LeaveBlockRaising ==
  /\ pc = "roll"
  /\ rolled.disableSorting
  /\ raised # NoErr
  /\ rolled' = sorting_enabled(rolled)
  /\ aux' = [op |-> "leave"]
  /\ UNCHANGED <<source, pc, st, pos, toks, raised, tree, applied, heap, roots>>

NextRollObj ==
  \/ SetRolls \/ SetItem \/ DelItem \/ Discard \/ ReplaceRolls
  \/ EnterBlock \/ LeaveBlock \/ LeaveBlockRaising

SpecRollObj == InitRollObj /\ [][NextRollObj]_vars

\* C17: outside a sorting_disabled block the active rolls are in
\* non-decreasing order after any sequence of construction, assignment to
\* rolls, item assignment, item deletion, discard and replace; inside a block
\* the order is free, and the rolls are sorted again when the block is
\* left, by an exception too.
C17_SortedOutsideBlock ==
  /\ ~rolled.disableSorting => IsSorted(rolled.self.rolls)
  /\ aux.op = "leave" => (~rolled.disableSorting /\ IsSorted(rolled.self.rolls))

----------------------------------------------------------------------------
(* The roll-modifying operators applied to a Roll one after the other:     *)
(* each call returns a new Roll, which is the Roll of the next call.       *)
(* source is the Roll that the sequence starts from.                       *)

\* At most MaxOps operators are applied to a Roll.
MaxOps == 2

FudgeDie == TupleTok(<<IntTok(0 - 1), IntTok(0), IntTok(1)>>)
OpDice == {IntTok(MaxSides), FudgeDie}
FacesOf(die) ==
  IF IsTuple(die) THEN {die.sides[i] : i \in 1..Len(die.sides)}
  ELSE {IntTok(n) : n \in 1..Num(die)}

\* The right operands: -2 .. MaxSides + 1
Numbers == {IntTok(n) : n \in (0 - 2)..(MaxSides + 1)}
\* Random sources: one raw number, then the next one for ever.
Draws == {Rng(<<a>>, (a + 1) % (MaxRaw + 1)) : a \in 0..MaxRaw}

\* rolled = Roll(rolls, die) for rolls of that die
InitOps ==
  /\ source \in UNION {{Roll(l, die) : l \in ListsUpTo(FacesOf(die), MaxDice)} :
                         die \in OpDice}
  /\ pc = "ops"
  /\ st = "" /\ pos = 0 /\ toks = <<>>
  /\ raised = NoErr
  /\ tree = None
  /\ aux = NoAux
  /\ applied = 0
  /\ heap = <<>> /\ roots = NoRoots
  /\ rolled = RollObject(source, FALSE)

\* rolled = f(rolled, arg): v is what the call returned or raised, log the
\* dice it drew
OpApplied(code, arg, v, log) ==
  /\ applied' = applied + 1
  /\ rolled' = IF IsErr(v) THEN rolled ELSE RollObject(v, FALSE)
  /\ raised' = IF IsErr(v) THEN v.e ELSE NoErr
  /\ aux' = [op |-> code, arg |-> arg, before |-> rolled.self, log |-> log]
  /\ UNCHANGED <<source, pc, st, pos, toks, tree, heap, roots>>

\* take_high(rolled, k)
TakeHigh ==
  /\ pc = "ops"
  /\ applied < MaxOps
  /\ \E k \in Numbers : OpApplied("h", k, take_high(rolled.self, k), <<>>)

\* take_low(rolled, k)
TakeLow ==
  /\ pc = "ops"
  /\ applied < MaxOps
  /\ \E k \in Numbers : OpApplied("l", k, take_low(rolled.self, k), <<>>)

\* threshold_lower(rolled, k), threshold_upper(rolled, k)
Threshold ==
  /\ pc = "ops"
  /\ applied < MaxOps
  /\ \E k \in Numbers :
       \/ OpApplied("t", k, threshold_lower(rolled.self, k), <<>>)
       \/ OpApplied("T", k, threshold_upper(rolled.self, k), <<>>)

\* floor_val(rolled, k), ceil_val(rolled, k)
Clamp ==
  /\ pc = "ops"
  /\ applied < MaxOps
  /\ \E k \in Numbers :
       \/ OpApplied("f", k, floor_val(rolled.self, k), <<>>)
       \/ OpApplied("c", k, ceil_val(rolled.self, k), <<>>)

\* reroll_once_on / _lower / _higher (rolled, k)
RerollOnce ==
  /\ pc = "ops"
  /\ applied < MaxOps
  /\ \E k \in Numbers, rng \in Draws, c \in {"eq", "lt", "gt"} :
       \E d \in {reroll_once(rolled.self, k, c, rng)} :
         OpApplied(CASE c = "eq" -> "r" [] c = "lt" -> "rl" [] c = "gt" -> "rh",
                   k, d.v, d.rng.log)

\* reroll_unconditional_on(rolled, k)
RerollOn ==
  /\ pc = "ops"
  /\ applied < MaxOps
  /\ \E k \in Numbers, rng \in Draws :
       \E d \in {reroll_unconditional(rolled.self, k, "eq", rng)} :
         OpApplied("R", k, d.v, d.rng.log)

\* reroll_unconditional_higher(rolled, k)
RerollHigher ==
  /\ pc = "ops"
  /\ applied < MaxOps
  /\ \E k \in Numbers, rng \in Draws :
       \E d \in {reroll_unconditional_higher(rolled.self, k, rng)} :
         OpApplied("Rh", k, d.v, d.rng.log)

\* reroll_unconditional_lower(rolled, k)
RerollLower ==
  /\ pc = "ops"
  /\ applied < MaxOps
  /\ \E k \in Numbers, rng \in Draws :
       \E d \in {reroll_unconditional_lower(rolled.self, k, rng)} :
         OpApplied("Rl", k, d.v, d.rng.log)

NextOps ==
  \/ TakeHigh \/ TakeLow \/ Threshold \/ Clamp
  \/ RerollOnce \/ RerollOn \/ RerollHigher \/ RerollLower

SpecOps == InitOps /\ [][NextOps]_vars

\* min(n, k)
Least(n, k) == IF n < k THEN n ELSE k

\* take_high or take_low was called with k >= 0.
Kept(code) ==
  /\ pc = "ops"
  /\ aux.op = code
  /\ Num(aux.arg) >= 0

\* C18: for a Roll of n active values and an integer k >= 0, keep-high
\* returns a Roll whose active values are the k largest of the original
\* (all when k >= n) and keep-low the k smallest, so that the result has
\* min(n, k) active values, and the values not kept are appended to the
\* discards.
C18_KeepsTheExtremes ==
  /\ Kept("h") =>
       /\ raised = NoErr
       /\ Len(rolled.self.rolls) = Least(Len(aux.before.rolls), Num(aux.arg))
       /\ rolled.self.rolls
            = SubSeq(Sort(aux.before.rolls),
                     Len(aux.before.rolls) - Len(rolled.self.rolls) + 1,
                     Len(aux.before.rolls))
       /\ rolled.self.discards
            = aux.before.discards
                \o SubSeq(Sort(aux.before.rolls), 1,
                          Len(aux.before.rolls) - Len(rolled.self.rolls))
  /\ Kept("l") =>
       /\ raised = NoErr
       /\ Len(rolled.self.rolls) = Least(Len(aux.before.rolls), Num(aux.arg))
       /\ rolled.self.rolls = SubSeq(Sort(aux.before.rolls), 1, Len(rolled.self.rolls))
       /\ rolled.self.discards
            = aux.before.discards
                \o SubSeq(Sort(aux.before.rolls), Len(rolled.self.rolls) + 1,
                          Len(aux.before.rolls))

\* the highest of three different values was kept
C18_Witness ==
  /\ Kept("h")
  /\ aux.arg = IntTok(1)
  /\ aux.before.rolls = <<IntTok(1), IntTok(2), IntTok(3)>>
  /\ rolled.self.rolls = <<IntTok(3)>>
  /\ rolled.self.discards = <<IntTok(1), IntTok(2)>>

\* How often v occurs in values.
Occurs(values, v) == Len(SelectSeq(values, LAMBDA w : w = v))

IsPrefix(a, b) == Len(a) <= Len(b) /\ SubSeq(b, 1, Len(a)) = a

\* What the last operator added to the discards.
NewDiscards ==
  SubSeq(rolled.self.discards, Len(aux.before.discards) + 1, Len(rolled.self.discards))

\* An operator of the sequence returned a Roll.
Modified ==
  /\ pc = "ops"
  /\ aux.op # "none"
  /\ raised = NoErr

\* C19: over any sequence of roll-modifying operators (h, l, f, c, the r
\* and R families, t, T) no value is lost: every value that was active
\* before an operator is afterwards active or in the discards, the discards
\* recorded earlier are retained, and len(rolls) + len(discards) never drops
\* below the length n of the original Roll.
C19_NoValueLost ==
  /\ Modified =>
       /\ IsPrefix(aux.before.discards, rolled.self.discards)
       /\ \A i \in 1..Len(aux.before.rolls) :
            Occurs(aux.before.rolls, aux.before.rolls[i])
              <= Occurs(rolled.self.rolls, aux.before.rolls[i])
                   + Occurs(NewDiscards, aux.before.rolls[i])
  /\ pc = "ops" =>
       /\ IsPrefix(source.discards, rolled.self.discards)
       /\ Len(rolled.self.rolls) + Len(rolled.self.discards) >= Len(source.rolls)

\* two operators in a row, each of which moved a value to the discards
C19_Witness ==
  /\ Modified
  /\ applied = 2
  /\ aux.op = "f"
  /\ Len(source.rolls) = 3
  /\ aux.before.discards # <<>>
  /\ Len(rolled.self.discards) > Len(aux.before.discards)

\* The least and the greatest side of a die: 1 and the number of sides for
\* a numeric die.
LeastSide(die) ==
  IF IsTuple(die)
    THEN CHOOSE v \in FacesOf(die) : \A w \in FacesOf(die) : NumLe(v, w)
  ELSE IntTok(1)
GreatestSide(die) ==
  IF IsTuple(die)
    THEN CHOOSE v \in FacesOf(die) : \A w \in FacesOf(die) : NumLe(w, v)
  ELSE die

\* reroll_unconditional_higher / _lower was called.
Rerolled(code) == pc = "ops" /\ aux.op = code

\* C20: reroll_unconditional_higher raises ArgumentValueError, without
\* drawing a die, when target < min(die) (1 for a numeric die, the smallest
\* side of a side list), reroll_unconditional_lower when target > max(die)
\* (the number of sides, or the largest side); for every other target the
\* guard does not raise.
C20_RerollGuards ==
  /\ Rerolled("Rh") =>
       IF NumLt(aux.arg, LeastSide(aux.before.die))
         THEN raised = "ArgumentValueError" /\ aux.log = <<>> /\ rolled.self = aux.before
       ELSE raised # "ArgumentValueError"
  /\ Rerolled("Rl") =>
       IF NumLt(GreatestSide(aux.before.die), aux.arg)
         THEN raised = "ArgumentValueError" /\ aux.log = <<>> /\ rolled.self = aux.before
       ELSE raised # "ArgumentValueError"

\* a fudge Roll asked to reroll everything above -2
C20_Witness ==
  /\ Rerolled("Rh")
  /\ aux.before.die = FudgeDie
  /\ aux.before.rolls # <<>>
  /\ aux.arg = IntTok(0 - 2)
  /\ raised = "ArgumentValueError"

----------------------------------------------------------------------------
(* EvalTree.is_critical and EvalTree.is_fail.                              *)

\* The die and the natural values the two predicates look for.
CritDie == 20
NaturalCrit == 20
NaturalFail == 1

\* `isinstance(node.value, Roll) and node.value.die == 20`
IsD20Roll(v) == IsRoll(v) /\ IsNumber(v.die) /\ NumEq(v.die, IntTok(CritDie))

\* `n in node.value`: Roll.__iter__ walks the active values only
RollContains(v, n) ==
  \E i \in 1..Len(v.rolls) : IsNumber(v.rolls[i]) /\ NumEq(v.rolls[i], IntTok(n))

\* a membership test that also looks through the discards
RollContains_Discards(v, n) ==
  \E i \in 1..Len(v.rolls \o v.discards) :
     IsNumber((v.rolls \o v.discards)[i]) /\ NumEq((v.rolls \o v.discards)[i], IntTok(n))

\* the abort predicate of the two callers; "never" is `lambda node: False`
Aborts(abort, node) == abort = "d20" /\ IsD20Roll(node.value)

\* a walk that never aborts
RECURSIVE pre_order_recursive_NoAbort(_, _)
pre_order_recursive_NoAbort(current, abort) ==
  <<current>>
  \o (IF current.left # None THEN pre_order_recursive_NoAbort(current.left, abort) ELSE <<>>)
  \o (IF current.right # None THEN pre_order_recursive_NoAbort(current.right, abort) ELSE <<>>)

\* EvalTree.__pre_order_recursive(current, abort)
RECURSIVE pre_order_recursive(_, _)
pre_order_recursive(current, abort) ==
  <<current>>
  \o (IF Aborts(abort, current) THEN <<>>
      ELSE (IF current.left # None THEN pre_order_recursive(current.left, abort) ELSE <<>>)
           \o (IF current.right # None THEN pre_order_recursive(current.right, abort)
               ELSE <<>>))

\* the loop of is_critical / is_fail over the nodes of the walk
NaturalIn(walk, n) ==
  \E i \in 1..Len(walk) : IsD20Roll(walk[i].value) /\ RollContains(walk[i].value, n)

\* a loop that counts discarded values as well
NaturalAmong_Discards(walk, n) ==
  \E i \in 1..Len(walk) : IsD20Roll(walk[i].value) /\ RollContains_Discards(walk[i].value, n)

NaturalAmong(walk, n) == NaturalIn(walk, n)

is_critical(root) == NaturalAmong(pre_order_recursive(root, "d20"), NaturalCrit)
is_fail(root) == NaturalAmong(pre_order_recursive(root, "d20"), NaturalFail)

----------------------------------------------------------------------------
(* SpecCrit: d20 expressions are built, evaluated against a random source  *)
(* that hands out the faces 1, 4 and 20, and asked for critical / fail.    *)

MaxDraws == 2

CritRaws == {NaturalFail - 1, 3, NaturalCrit - 1}

\* the generator of tests/conftest.py: 1, 20, 1, 20, 1, 20 and then 4 for
\* ever, whatever the range that is asked for
mock_randint ==
  Rng(<<0 - NaturalFail, 0 - NaturalCrit, 0 - NaturalFail, 0 - NaturalCrit,
        0 - NaturalFail, 0 - NaturalCrit>>, 0 - 4)

CritDraws ==
  {Rng(s, r) : s \in ListsUpTo(CritRaws, MaxDraws), r \in CritRaws} \cup {mock_randint}

CritSources ==
  {StrSrc(x) : x \in
     {<<"1", "d", "2", "0">>,
      <<"2", "d", "2", "0">>,
      <<"2", "d", "2", "0", "h", "1">>,
      <<"2", "d", "2", "0", "l", "1">>,
      <<"1", "d", "2", "0", "+", "1", "d", "2", "0">>,
      <<"1", "0", "d", "2", "0", "h", "5", "l", "2">>,
      <<"3", "d", "2", "0", "h", "2", "l", "1">>,
      <<"1", "d", "2", "0", "+", "2", "0">>,
      <<"2", "d", "4", "+", "1">>,
      <<"2", "0", "d", "1">>,
      <<"1", "d", "2", "0", "r", "1">>,
      <<"1", "d", "2", "0", "f", "2">>,
      <<"2", "d", "2", "0", "t", "2", "0">>,
      <<"2", "0">>}}

InitCrit ==
  /\ source \in CritSources
  /\ pc = "new"
  /\ st = "" /\ pos = 0 /\ toks = <<>>
  /\ raised = NoErr
  /\ tree = None
  /\ aux = NoAux
  /\ applied = 0
  /\ heap = <<>> /\ roots = NoRoots
  /\ rolled = None

\* tree.evaluate() with the dice falling as the random source says
CritEvaluate ==
  /\ pc = "built"
  /\ \E rng \in CritDraws :
       \E e \in {evaluate(tree, rng)} :
          /\ tree' = e.root
          /\ raised' = e.err
          /\ aux' = [op |-> "evaluate", v |-> e.v, cause |-> e.cause, log |-> e.rng.log]
  /\ UNCHANGED <<source, pc, st, pos, toks, applied, heap, roots, rolled>>

\* tree.is_critical()
IsCritical ==
  /\ pc = "built" /\ tree # None
  /\ aux' = [op |-> "is_critical", result |-> is_critical(tree)]
  /\ raised' = NoErr
  /\ UNCHANGED <<source, pc, st, pos, toks, tree, applied, heap, roots, rolled>>

\* tree.is_fail()
IsFail ==
  /\ pc = "built" /\ tree # None
  /\ aux' = [op |-> "is_fail", result |-> is_fail(tree)]
  /\ raised' = NoErr
  /\ UNCHANGED <<source, pc, st, pos, toks, tree, applied, heap, roots, rolled>>

NextCrit == Build \/ CritEvaluate \/ IsCritical \/ IsFail
SpecCrit == InitCrit /\ [][NextCrit]_vars

\* the natural value a predicate call looked for
Asked == IF aux.op = "is_critical" THEN NaturalCrit ELSE NaturalFail
Answered == pc = "built" /\ aux.op \in {"is_critical", "is_fail"}

\* every node of the tree, and the nodes with no d20 Roll above them
RECURSIVE AllNodes(_)
AllNodes(node) ==
  IF node = None THEN {}
  ELSE {node} \cup AllNodes(node.left) \cup AllNodes(node.right)

RECURSIVE Unshadowed(_)
Unshadowed(node) ==
  IF node = None THEN {}
  ELSE {node} \cup (IF IsD20Roll(node.value) THEN {}
                    ELSE Unshadowed(node.left) \cup Unshadowed(node.right))

HoldsNatural(node, n) == IsD20Roll(node.value) /\ RollContains(node.value, n)

\* C21 (as stated): is_critical() (is_fail()) returns true if and only if
\* SOME node of the tree holds a Roll whose die is 20 and whose active
\* values contain 20 (1).
C21_AnyNodeCounts ==
  Answered => (aux.result <=> \E node \in AllNodes(tree) : HoldsNatural(node, Asked))

\* C21 (amended): is_critical() (is_fail()) returns true if and only if a
\* node that has no d20 Roll above it holds a Roll whose die is 20 and whose
\* active values contain 20 (1); whenever it returns true some node of the
\* tree holds such a Roll.
C21_UnshadowedNodeCounts ==
  Answered =>
    /\ aux.result <=> \E node \in Unshadowed(tree) : HoldsNatural(node, Asked)
    /\ aux.result => \E node \in AllNodes(tree) : HoldsNatural(node, Asked)

\* 2d20l1 rolled 1 and 20: the node of `d` holds the 20, the root dropped it
C21_Witness ==
  /\ Answered /\ aux.op = "is_critical" /\ ~aux.result
  /\ \E node \in AllNodes(tree) : HoldsNatural(node, NaturalCrit)

\* the answer a branch gives: its outermost d20 Roll decides, and only a
\* branch without a Roll of its own passes the question down
RECURSIVE BranchHas(_, _)
BranchHas(node, n) ==
  IF node = None THEN FALSE
  ELSE IF IsD20Roll(node.value) THEN RollContains(node.value, n)
  ELSE BranchHas(node.left, n) \/ BranchHas(node.right, n)

\* the naturals that were rolled somewhere below and are active at no
\* outermost d20 Roll
DroppedOnly(n) ==
  /\ \E node \in AllNodes(tree) : IsD20Roll(node.value) /\ RollContains_Discards(node.value, n)
  /\ ~ \E node \in Unshadowed(tree) : HoldsNatural(node, n)

\* C22: is_critical() / is_fail() look on each branch only at the outermost
\* node whose value is a d20 Roll; a natural 20 (1) that was rolled and then
\* discarded by an enclosing keep / drop operator does not count, and the
\* two answers are independent of each other (1d20 + 1d20 rolling 1 and 20
\* is both critical and fail).
C22_OutermostRollDecides ==
  Answered =>
    /\ aux.result = BranchHas(tree, Asked)
    /\ DroppedOnly(Asked) => ~aux.result
    /\ (is_critical(tree) /\ is_fail(tree)) =>
         (BranchHas(tree, NaturalCrit) /\ BranchHas(tree, NaturalFail))

\* a tree whose 20 was rolled and dropped is asked and answers no
C22_Witness ==
  /\ Answered /\ aux.op = "is_critical" /\ DroppedOnly(NaturalCrit) /\ ~aux.result

\* 1d20 + 1d20 rolled a 1 and a 20 and is both critical and fail
C22_BothWitness ==
  /\ Answered /\ tree.left # None /\ tree.right # None
  /\ IsD20Roll(tree.left.value) /\ IsD20Roll(tree.right.value)
  /\ is_critical(tree) /\ is_fail(tree)

----------------------------------------------------------------------------
(* SpecLogic: one comparison or boolean operator between two numbers is    *)
(* built from its token list and evaluated.                                *)

LogicCodes == {">", "gt", ">=", "ge", "<", "lt", "<=", "le", "=", "|", "&"}
CompareCodes == LogicCodes \ {"|", "&"}
LogicOperands == {IntTok(n) : n \in (0 - 1)..MaxValue} \cup {MkFloat(1, 2), MkFloat(5, 2)}

LogicSources ==
  {ListSrc(<<x, OpTok(c), y>>) : x \in LogicOperands, c \in LogicCodes, y \in LogicOperands}

InitLogic ==
  /\ source \in LogicSources
  /\ pc = "new"
  /\ st = "" /\ pos = 0 /\ toks = <<>>
  /\ raised = NoErr
  /\ tree = None
  /\ aux = NoAux
  /\ applied = 0
  /\ heap = <<>> /\ roots = NoRoots
  /\ rolled = None

NextLogic == Build \/ Evaluate
SpecLogic == InitLogic /\ [][NextLogic]_vars

ZeroOrOne(v) == IsNumber(v) /\ (NumEq(v, IntTok(0)) \/ NumEq(v, IntTok(1)))

\* the operator at the root has been applied to its two operands
LogicEvaluated(codes) ==
  /\ pc = "built" /\ aux.op = "evaluate" /\ raised = NoErr
  /\ tree # None /\ IsOperator(tree.payload) /\ tree.payload.code \in codes

\* C23: each of >, >=, <, <=, =, | and & returns only the value 0 or 1 for
\* any numeric operands.
C23_ZeroOrOne ==
  LogicEvaluated(LogicCodes) => (ZeroOrOne(aux.v) /\ ZeroOrOne(tree.value))

\* What the table does give: a comparison is 0 or 1, `|` and `&` hand back
\* one of their two operands unchanged.
ComparisonsZeroOrOne ==
  LogicEvaluated(CompareCodes) => (ZeroOrOne(aux.v) /\ ZeroOrOne(tree.value))
BooleansReturnAnOperand ==
  LogicEvaluated({"|", "&"}) => tree.value \in {tree.left.value, tree.right.value}

----------------------------------------------------------------------------
(* A failed evaluation and the values cached in the nodes.                 *)

\* the step is a call of tree.evaluate() that raised EvaluationError
EvaluateFailed ==
  pc = "built" /\ aux'.op = "evaluate" /\ raised' = "EvaluationError"

\* C24: if EvalTree.evaluate() raises EvaluationError, every node's cached
\* value is what it was before the failed call.
C24_FailedEvaluateLeavesNoTrace ==
  [][EvaluateFailed => tree' = tree]_vars

----------------------------------------------------------------------------
(* SpecOrder: expressions with unary signs are built and walked in order.  *)

OrderDigits == {"1", "2"}
OrderOps == {"+", "-", "*", "^"}
SignChars == {"-", "+"}

OrderStrings ==
  {<<a, A, b, B, s, c>> : a \in OrderDigits, A \in OrderOps, b \in OrderDigits,
                          B \in OrderOps, s \in SignChars, c \in {"1"}}
  \cup {<<a, A, s, t, c>> : a \in OrderDigits, A \in OrderOps, s \in SignChars,
                            t \in SignChars, c \in OrderDigits}
  \cup {<<s, a, A, b>> : s \in SignChars, a \in OrderDigits, A \in OrderOps,
                         b \in OrderDigits}
  \cup {<<"1", "+", "2", "d", "4", "h", "-", "1">>,
        <<"1", "+", "2", "d", "4", "h", "1">>,
        <<"1", "+", "2", "d", "4", "R", "-", "1">>,
        <<"2", "^", "(", "-", "1", ")">>,
        <<"-", "(", "1", "+", "2", ")">>,
        <<"1", "+", "4", "!", "-", "1">>,
        <<"2", "*", "(", "1", "+", "2", ")">>,
        <<"1", ")", "+", "(", "1">>,
        <<"(", "1", ")", "+", "(", "2", ")">>}

InitOrder ==
  /\ source \in {StrSrc(x) : x \in OrderStrings}
  /\ pc = "new"
  /\ st = "" /\ pos = 0 /\ toks = <<>>
  /\ raised = NoErr
  /\ tree = None
  /\ aux = NoAux
  /\ applied = 0
  /\ heap = <<>> /\ roots = NoRoots
  /\ rolled = None

\* [node.payload for node in tree.in_order()]
OrderWalk ==
  /\ pc = "built"
  /\ aux' = [op |-> "in_order", walk |-> WalkedPayloads(in_order(tree))]
  /\ raised' = in_order(tree).err
  /\ UNCHANGED <<source, pc, st, pos, toks, tree, applied, heap, roots, rolled>>

NextOrder == Build \/ OrderWalk
SpecOrder == InitOrder /\ [][NextOrder]_vars

IsParen(t) == t = StrTok("(") \/ t = StrTok(")")
WithoutParens(list) == SelectSeq(list, LAMBDA t : ~IsParen(t))
IsSignToken(t) == IsOperator(t) /\ t.code \in {"m", "p"}

Walked == pc = "built" /\ aux.op = "in_order" /\ source.k = "str"

\* C25: for every expression that tokenizes and builds into a tree, the
\* in-order walk visits the value and operator tokens in exactly the order
\* of the token list with the parentheses removed.
C25_InOrderIsTokenOrder ==
  Walked =>
    WithoutParens(aux.walk) = WithoutParens(tokens(source.chars).tokens)

\* What does hold: the order is kept whenever the expression has no sign.
OrderKeptWithoutSigns ==
  (Walked /\ \A i \in 1..Len(aux.walk) : ~IsSignToken(aux.walk[i])) =>
    WithoutParens(aux.walk) = WithoutParens(tokens(source.chars).tokens)

----------------------------------------------------------------------------
(* Strings that tokenize, and the tree builder.                            *)

\* EvalTree(source) has run on a string that tokenize accepts
TokenizedSource ==
  /\ source.k = "str" /\ pc \in {"built", "failed"}
  /\ tokens(source.chars).err = None

\* C26: every token list that tokenize returns for a source string is
\* accepted by the tree builder: no string that tokenizes successfully
\* fails at tree construction.
C26_TokenizedAlwaysBuilds ==
  TokenizedSource => pc = "built"

----------------------------------------------------------------------------
(* The parentheses of a returned token list.                               *)

\* '(' tokens minus ')' tokens among the first n tokens of the list
RECURSIVE Depth(_, _)
Depth(list, n) ==
  IF n = 0 THEN 0
  ELSE Depth(list, n - 1)
       + (IF list[n] = StrTok("(") THEN 1 ELSE IF list[n] = StrTok(")") THEN 0 - 1 ELSE 0)

Balanced(list) == Depth(list, Len(list)) = 0
NeverNegative(list) == \A n \in 0..Len(list) : Depth(list, n) >= 0

\* tokenize has returned its list
ListReturned == pc = "done"

\* C28: every token list returned by tokenize has properly nested
\* parentheses: as many '(' as ')' tokens, and no prefix of the list
\* contains more ')' than '('.
C28_ParensNested ==
  ListReturned => (Balanced(toks) /\ NeverNegative(toks))

\* What the count of tokens_lazy does guarantee: as many '(' as ')'.
ParensBalanced ==
  ListReturned => Balanced(toks)

----------------------------------------------------------------------------
(* SpecFair: the unconditional rerolls under a random source that keeps    *)
(* turning up every face of the die.                                       *)

\* a die with one side, a die with two, a side list whose sides are all
\* equal, and the fudge die
FairDice == {IntTok(1), IntTok(2), TupleTok(<<IntTok(2), IntTok(2)>>), FudgeDie}

\* raw numbers a, a + 1, a + 2, ... (mod MaxRaw + 1): every window of
\* MaxRaw + 1 draws shows every raw number, hence every face of these dice
Cycle(a, n) == [i \in 1..n |-> (a + i - 1) % (MaxRaw + 1)]
FairDraws == {Rng(Cycle(a, MaxDice * RerollFuel), a) : a \in 0..MaxRaw}

InitFair ==
  /\ source \in UNION {{Roll(l, die) : l \in ListsUpTo(FacesOf(die), MaxDiscards)} :
                         die \in FairDice}
  /\ pc = "ops"
  /\ st = "" /\ pos = 0 /\ toks = <<>>
  /\ raised = NoErr
  /\ tree = None
  /\ aux = NoAux
  /\ applied = 0
  /\ heap = <<>> /\ roots = NoRoots
  /\ rolled = RollObject(source, FALSE)

\* reroll_unconditional_on(rolled, k)
FairRerollOn ==
  /\ pc = "ops"
  /\ applied < MaxOps
  /\ \E k \in Numbers, rng \in FairDraws :
       \E d \in {reroll_unconditional(rolled.self, k, "eq", rng)} :
         OpApplied("R", k, d.v, d.rng.log)

\* reroll_unconditional_higher(rolled, k)
FairRerollHigher ==
  /\ pc = "ops"
  /\ applied < MaxOps
  /\ \E k \in Numbers, rng \in FairDraws :
       \E d \in {reroll_unconditional_higher(rolled.self, k, rng)} :
         OpApplied("Rh", k, d.v, d.rng.log)

\* reroll_unconditional_lower(rolled, k)
FairRerollLower ==
  /\ pc = "ops"
  /\ applied < MaxOps
  /\ \E k \in Numbers, rng \in FairDraws :
       \E d \in {reroll_unconditional_lower(rolled.self, k, rng)} :
         OpApplied("Rl", k, d.v, d.rng.log)

NextFair == FairRerollOn \/ FairRerollHigher \/ FairRerollLower
SpecFair == InitFair /\ [][NextFair]_vars

\* the comparison of each unconditional reroll
CompOf(code) == CASE code = "R" -> "eq" [] code = "Rh" -> "gt" [] code = "Rl" -> "lt"

\* an unconditional reroll was called and no guard rejected it
RerollRan(codes) ==
  /\ pc = "ops" /\ aux.op \in codes
  /\ raised \in {NoErr, NonTermination}

\* some face of the die is not rerolled again
SomeFaceEnds ==
  \E f \in FacesOf(aux.before.die) : ~Comp(CompOf(aux.op), f, aux.arg)

\* some value of the Roll meets the comparison and is rerolled
NeedsReroll ==
  \E i \in 1..Len(aux.before.rolls) : Comp(CompOf(aux.op), aux.before.rolls[i], aux.arg)

\* C27: every unconditional reroll (R, R<, R>, Rl, Rh) that is not rejected
\* with an error terminates when every face of the die keeps turning up:
\* at least one face of the die ends the rerolling of a value.
C27_FairRerollTerminates ==
  RerollRan({"R", "Rh", "Rl"}) => (raised = NoErr /\ (NeedsReroll => SomeFaceEnds))

\* What the two guards do give: the rerolls with a threshold terminate.
GuardedRerollsTerminate ==
  RerollRan({"Rh", "Rl"}) => (raised = NoErr /\ (NeedsReroll => SomeFaceEnds))

----------------------------------------------------------------------------
(* Roll.discard and Roll.replace when they raise.                          *)

\* the step is a call of discard or replace that raised
DiscardOrReplaceRaised ==
  /\ pc = "roll"
  /\ aux'.op \in {"discard", "replace"}
  /\ raised' # NoErr

\* C29: Roll.discard and Roll.replace are all-or-nothing: when the call
\* raises, the Roll's rolls and discards are exactly what they were before
\* the call.
C29_AllOrNothing ==
  [][DiscardOrReplaceRaised =>
       (rolled'.self.rolls = rolled.self.rolls
        /\ rolled'.self.discards = rolled.self.discards)]_vars

\* What does hold: a failed call never touches the active values.
FailedCallKeepsRolls ==
  [][DiscardOrReplaceRaised => rolled'.self.rolls = rolled.self.rolls]_vars

----------------------------------------------------------------------------
(* Termination of the tokenizer's state machine.                           *)

\* Every string of up to MaxScan characters over one character of each kind,
\* and a few longer ones.
MaxScan == 3
ScanChars == {"1", "+", "-", "(", ")", "!", "d", " ", "F", "x"}
ScanStrings ==
  UNION {[1..n -> ScanChars] : n \in 0..MaxScan}
  \cup {<<"1", ")", "+", "(", "1">>,
        <<"(", "(", "1", ")", ")">>,
        <<"1", "d", "[", "1", "]">>,
        <<"1", "2", "!", " ", " ">>,
        <<"1", " ", "+", " ", "1">>}

InitTokLive ==
  /\ source \in {StrSrc(x) : x \in ScanStrings}
  /\ pc = "new"
  /\ st = "" /\ pos = 0 /\ toks = <<>>
  /\ raised = NoErr
  /\ tree = None
  /\ aux = NoAux
  /\ applied = 0
  /\ heap = <<>> /\ roots = NoRoots
  /\ rolled = None

\* The loop of tokens_lazy keeps running while a step is possible.
SpecTokLive == InitTokLive /\ [][NextTok]_vars /\ WF_vars(NextTok)

\* the states whose collect produces no token and that take no character
Markers == {"InputStart", "ExprStart", "ExprEnd"}

\* `token, state = state.run()` returned the next state
Ran1 == pc = "scan" /\ pc' = "scan" /\ st # "InputEnd"

PositionNeverBack == pos' >= pos

\* the state after a marker takes a character, or is the end of the input
MarkerHandsToConsumer ==
  (Ran1 /\ st \in Markers) => st' \notin Markers

\* InputStart opens the first expression; the two expression markers hand
\* over to a state that takes a character, or to the end of the input
MarkerHandsOver ==
  /\ (Ran1 /\ st = "InputStart") => st' \in {"ExprStart", "InputEnd"}
  /\ (Ran1 /\ st \in {"ExprStart", "ExprEnd"}) => st' \notin Markers

\* a state that is no marker takes at least one character, and the marker
\* that follows it stays where the state stopped
ConsumerAdvances ==
  (Ran1 /\ st \notin Markers) => pos' > pos
MarkerStays ==
  (Ran1 /\ st \in Markers) => (pos' >= pos /\ toks' = toks)

\* the run is over: InputEnd was reached or a ParseError was raised
Ended == pc \in {"done", "failed"}

\* C30 (as stated): the scan position never moves backwards, a marker state
\* (InputStart, ExprStart, ExprEnd) always hands over to a state that
\* consumes at least one character or to the end of input, and every run
\* ends in InputEnd or in a ParseError.
C30_MarkersHandToConsumers ==
  /\ [][PositionNeverBack /\ MarkerHandsToConsumer /\ ConsumerAdvances]_vars
  /\ <>Ended

\* C30 (amended): the scan position never moves backwards; InputStart hands
\* over to ExprStart or to the end of input, ExprStart and ExprEnd hand over
\* to a state that consumes at least one character or to the end of input,
\* so no more than two markers follow each other; every run ends in
\* InputEnd or in a ParseError.
C30_TokenizerTerminates ==
  /\ [][PositionNeverBack /\ MarkerHandsOver /\ ConsumerAdvances /\ MarkerStays]_vars
  /\ <>Ended

\* a run that went through markers and consuming states up to InputEnd of
\* a string of MaxScan characters
C30_Witness ==
  /\ pc = "done" /\ st = "InputEnd"
  /\ Len(source.chars) = MaxScan /\ pos = MaxScan
  /\ Len(toks) = MaxScan

====
